---- MODULE Spec2Model ----
(***************************************************************************)
(* The editorial pipeline of chrisfauerbach/multiagent: the orchestrator   *)
(* (agents/editor_in_chief.py), the five worker agents, the Redis queues   *)
(* (shared/redis_client.py) and the Elasticsearch story documents          *)
(* (shared/elasticsearch_client.py).                                       *)
(*                                                                         *)
(* Every agent is one thread running BaseAgent.run.  A handler is split at *)
(* its external operations (get_story, generate, save_story,               *)
(* enqueue_message): each of them is one atomic step, and the agent's pc   *)
(* records which one comes next.  Texts produced by the generation         *)
(* service are abstracted to what the control flow reads from them (the    *)
(* "APPROVED: YES" verdict); metrics and timestamps are left out.          *)
(***************************************************************************)
EXTENDS Naturals, Sequences, FiniteSets, Bags, TLC

VARIABLES
    review_mode,        \* config["pipeline"]["review_mode"], process-wide
    max_revisions,      \* config["pipeline"]["max_revisions"]
    store,              \* the stories index: story_id -> document or NoStory
    queues,             \* the Redis lists: queue name -> messages, oldest first
    pc,                 \* agent -> position in BaseAgent.run / its handler
    msg,                \* agent -> the message being handled
    story,              \* agent -> the Story object the handler holds
    result,             \* agent -> what the handler read from generate()
    args,               \* orchestrator: arguments of _evaluate_and_decide
    pending_feedback,   \* EditorInChiefAgent._pending_feedback
    triggered,          \* story ids for which a trigger sent start_new_story
    enqueued,           \* the "message_enqueued" log lines, counted
    review_rounds,      \* the rounds _send_for_review was called with, in order
    produced,           \* the FeedbackItems the reviewer and the editor built
    evals,              \* the calls of _evaluate_and_decide, in order
    dropped,            \* the messages a handler gave up, with the error logged
    standby             \* a second orchestrator process, when there is one

vars == <<review_mode, max_revisions, store, queues, pc, msg, story, result, args,
          pending_feedback, triggered, enqueued, review_rounds, produced, evals,
          dropped, standby>>

(***************************************************************************)
(* Bounds                                                                  *)
(***************************************************************************)
\* largest configured max_revisions explored
MaxRevisionsLimit == 3

\* story ids handed out by the triggers (uuid4 hex in the code)
StoryIds == {"s1"}

(***************************************************************************)
(* Vocabulary (shared/constants.py, shared/models.py)                      *)
(***************************************************************************)
QUEUE_ORCHESTRATOR == "queue:orchestrator"
QUEUE_PROMPT_GENERATOR == "queue:prompt_generator"
QUEUE_WRITER == "queue:writer"
QUEUE_REVIEWER == "queue:reviewer"
QUEUE_EDITOR == "queue:editor"
QUEUE_COVER_DESIGNER == "queue:cover_designer"

QueueNames == {QUEUE_ORCHESTRATOR, QUEUE_PROMPT_GENERATOR, QUEUE_WRITER,
               QUEUE_REVIEWER, QUEUE_EDITOR, QUEUE_COVER_DESIGNER}

Workers == {"prompt_generator", "writer", "reviewer", "editor", "cover_designer"}
Agents == Workers \cup {"orchestrator"}

\* BaseAgent.__init__(agent_name, listen_queue) of each agent class
ListenQueue(a) ==
    CASE a = "orchestrator" -> QUEUE_ORCHESTRATOR
      [] a = "prompt_generator" -> QUEUE_PROMPT_GENERATOR
      [] a = "writer" -> QUEUE_WRITER
      [] a = "reviewer" -> QUEUE_REVIEWER
      [] a = "editor" -> QUEUE_EDITOR
      [] a = "cover_designer" -> QUEUE_COVER_DESIGNER

StoryStatus == {"QUEUED", "PROMPT_CREATED", "DRAFT_WRITTEN", "IN_REVIEW",
                "REVISION_NEEDED", "REVISED", "APPROVED", "DESIGNING_COVER",
                "PUBLISHED"}

ReviewModes == {"sequential", "parallel"}

\* Python's None, where a Story, a message, a prompt or a FeedbackItem is expected
NoStory == [none |-> "story"]
NoMsg == [none |-> "message"]
NoArgs == [none |-> "args"]
NoPrompt == "none"
NoFeedback == [none |-> "feedback"]
NoResult == [none |-> "result"]
NoInstance == [none |-> "instance"]

\* an empty payload dict
EmptyPayload == [k \in {} |-> 0]

\* dict.get(key, default)
Get(p, k, d) == IF k \in DOMAIN p THEN p[k] ELSE d

\* AgentMessage(story_id=, action=, payload=, source=, target=)
AgentMessage(sid, action, payload, source, target) ==
    [story_id |-> sid, action |-> action, payload |-> payload,
     source |-> source, target |-> target]

\* FeedbackItem(agent=, round_number=, feedback=, approved=)
FeedbackItem(agent, round_number, approved) ==
    [agent |-> agent, round_number |-> round_number, approved |-> approved]

\* Revision(round_number=, content=, feedback_addressed=)
Revision(round_number) == [round_number |-> round_number]

\* Story(story_id=, status=PROMPT_CREATED, prompt=, max_revisions=) with the
\* defaults of the model class for the other fields
Story(sid, prompt, maxrev) ==
    [story_id |-> sid, status |-> "PROMPT_CREATED", prompt |-> prompt,
     current_draft |-> 0, revisions |-> <<>>, feedback |-> <<>>,
     revision_count |-> 0, max_revisions |-> maxrev, cover_svg |-> FALSE]

(***************************************************************************)
(* Queue Service and Document Store adapters                               *)
(***************************************************************************)
\* logger.info("message_enqueued", queue=, action=, story_id=)
LogLine(q, m) == [queue |-> q, action |-> m.action, story_id |-> m.story_id]

\* enqueue_message: lpush on the list, and the log line
Enqueue(q, m) ==
    /\ queues' = [queues EXCEPT ![q] = Append(@, m)]
    /\ enqueued' = enqueued (+) SetToBag({LogLine(q, m)})

\* get_story: the stored document, or None
GetStory(sid) == store[sid]

\* save_story: es.index replaces the whole document under the story's id
SaveStory(st) == store' = [store EXCEPT ![st.story_id] = st]

\* the form fields of the dashboard trigger, after strip()
UserPrompts == {"", "idea"}
Models == {"", "llama"}

\* trigger_story: a key is set only for a non-empty field
TriggerPayload(user_prompt, model) ==
    [k \in (IF user_prompt # "" THEN {"user_prompt"} ELSE {})
             \cup (IF model # "" THEN {"model"} ELSE {}) |->
        IF k = "user_prompt" THEN user_prompt ELSE model]

\* the arguments of scripts/seed_prompt.py after strip(), and the model of the
\* pipeline configuration
Genres == {"", "horror"}

\* seed_prompt.py main: the model key is always set, user_prompt and genre
\* only when non-empty
SeedPayload(user_prompt, genre, model) ==
    [k \in {"model"} \cup (IF user_prompt # "" THEN {"user_prompt"} ELSE {})
                     \cup (IF genre # "" THEN {"genre"} ELSE {}) |->
        CASE k = "model" -> model
          [] k = "user_prompt" -> user_prompt
          [] k = "genre" -> genre]

\* the start_new_story messages of the dashboard and of the seed script
TriggerMessages(sid) ==
    {AgentMessage(sid, "start_new_story", TriggerPayload(u, m),
                  "dashboard", "orchestrator") : u \in UserPrompts, m \in Models}
    \cup
    {AgentMessage(sid, "start_new_story", SeedPayload(x[1], x[2], x[3]),
                  "seed_script", "orchestrator") :
        x \in UserPrompts \X Genres \X Models}

(***************************************************************************)
(* Initial state: every agent constructed and blocked in its first pop     *)
(***************************************************************************)
InitWith(limit) ==
    /\ review_mode \in ReviewModes
    /\ max_revisions \in 0..limit
    /\ store = [s \in StoryIds |-> NoStory]
    /\ queues = [q \in QueueNames |-> <<>>]
    /\ pc = [a \in Agents |-> "idle"]
    /\ msg = [a \in Agents |-> NoMsg]
    /\ story = [a \in Agents |-> NoStory]
    /\ result = [a \in Agents |-> NoResult]
    /\ args = NoArgs
    /\ pending_feedback = [s \in {} |-> 0]
    /\ triggered = {}
    /\ enqueued = EmptyBag
    /\ review_rounds = <<>>
    /\ produced = {}
    /\ evals = <<>>
    /\ dropped = {}
    /\ standby = NoInstance

Init == InitWith(MaxRevisionsLimit)

\* scripts/seed_prompt.py main and dashboard trigger_story: a fresh story id
\* and a start_new_story message on the orchestrator's queue
Trigger ==
    \E sid \in StoryIds \ triggered :
    \E m \in TriggerMessages(sid) :
        /\ triggered' = triggered \cup {sid}
        /\ Enqueue(QUEUE_ORCHESTRATOR, m)
        /\ UNCHANGED <<review_mode, max_revisions, store, pc, msg, story,
                       result, args, pending_feedback, review_rounds, produced,
                       evals, dropped, standby>>

\* mutant of Dequeue: the pop takes the end of the list that lpush adds to
DequeueNewest(a) ==
    /\ pc[a] = "idle"
    /\ queues[ListenQueue(a)] # <<>>
    /\ LET q == queues[ListenQueue(a)]
       IN /\ msg' = [msg EXCEPT ![a] = q[Len(q)]]
          /\ queues' = [queues EXCEPT ![ListenQueue(a)] = SubSeq(q, 1, Len(q) - 1)]
    /\ pc' = [pc EXCEPT ![a] = "handle"]
    /\ UNCHANGED <<review_mode, max_revisions, store, story, result, args,
                   pending_feedback, triggered, enqueued, review_rounds,
                   produced, evals, dropped, standby>>

\* BaseAgent.run: dequeue_message (brpop) returned a message
Dequeue(a) ==
    /\ pc[a] = "idle"
    /\ queues[ListenQueue(a)] # <<>>
    /\ msg' = [msg EXCEPT ![a] = Head(queues[ListenQueue(a)])]
    /\ queues' = [queues EXCEPT ![ListenQueue(a)] = Tail(@)]
    /\ pc' = [pc EXCEPT ![a] = "handle"]
    /\ UNCHANGED <<review_mode, max_revisions, store, story, result, args,
                   pending_feedback, triggered, enqueued, review_rounds,
                   produced, evals, dropped, standby>>

\* the handler returned: back to the pop of BaseAgent.run
Return(a) ==
    /\ pc' = [pc EXCEPT ![a] = "idle"]
    /\ msg' = [msg EXCEPT ![a] = NoMsg]
    /\ story' = [story EXCEPT ![a] = NoStory]
    /\ result' = [result EXCEPT ![a] = NoResult]

\* logger.error("story_not_found", story_id=...) and return: the message is
\* given up
NotFound(a) ==
    /\ dropped' = dropped \cup {[message |-> msg[a], error |-> "story_not_found"]}
    /\ Return(a)

(***************************************************************************)
(* Worker agents                                                           *)
(***************************************************************************)
\* the action a worker's handle_message accepts
Accepts(a) ==
    CASE a = "prompt_generator" -> {"generate_prompt"}
      [] a = "writer" -> {"write_draft", "revise"}
      [] a = "reviewer" -> {"review"}
      [] a = "editor" -> {"edit"}
      [] a = "cover_designer" -> {"design_cover"}

\* get_story at the head of the writer, reviewer, editor and cover designer
\* handlers; a missing story (for write_draft also a missing prompt) is
\* logged and the handler returns
WorkerLoad(a) ==
    /\ a \in Workers \ {"prompt_generator"}
    /\ pc[a] = "handle"
    /\ msg[a].action \in Accepts(a)
    /\ LET st == GetStory(msg[a].story_id)
           missing == \/ st = NoStory
                      \/ msg[a].action = "write_draft" /\ st.prompt = NoPrompt
       IN IF missing
          THEN NotFound(a)
          ELSE /\ story' = [story EXCEPT ![a] = st]
               /\ pc' = [pc EXCEPT ![a] = "generate"]
               /\ UNCHANGED <<msg, result, dropped>>
    /\ UNCHANGED <<review_mode, max_revisions, store, queues, args,
                   pending_feedback, triggered, enqueued, review_rounds,
                   produced, evals, standby>>

\* PromptGeneratorAgent.handle_message up to save_story: generate returned and
\* the Story is built with the configured max_revisions
PromptGenerate ==
    /\ pc["prompt_generator"] = "handle"
    /\ msg["prompt_generator"].action \in Accepts("prompt_generator")
    /\ story' = [story EXCEPT !["prompt_generator"] =
                    Story(msg["prompt_generator"].story_id, "brief", max_revisions)]
    /\ pc' = [pc EXCEPT !["prompt_generator"] = "save"]
    /\ UNCHANGED <<review_mode, max_revisions, store, queues, msg, result, args,
                   pending_feedback, triggered, enqueued, review_rounds,
                   produced, evals, dropped, standby>>

\* mutant of WriteDraft: the prompt is cleared once the draft is written
WriteDraftClearsPrompt(st) ==
    [st EXCEPT !.current_draft = 1, !.status = "DRAFT_WRITTEN", !.prompt = NoPrompt]

\* WriterAgent._write_draft, the mutation of the loaded story
WriteDraft(st) ==
    [st EXCEPT !.current_draft = 1, !.status = "DRAFT_WRITTEN"]

\* mutant of Revise: the status of _write_draft is set
ReviseAsDraft(st, round_number) ==
    [st EXCEPT !.revisions = Append(@, Revision(round_number)),
               !.current_draft = round_number + 1,
               !.revision_count = round_number,
               !.status = "DRAFT_WRITTEN"]

\* mutant of Revise: revision_count is left one round behind
ReviseCountBehind(st, round_number) ==
    [st EXCEPT !.revisions = Append(@, Revision(round_number)),
               !.current_draft = round_number + 1,
               !.revision_count = round_number - 1,
               !.status = "REVISED"]

\* mutant of Revise: the revisions list is rebuilt with the new entry only
ReviseRewrites(st, round_number) ==
    [st EXCEPT !.revisions = <<Revision(round_number)>>,
               !.current_draft = round_number + 1,
               !.revision_count = round_number,
               !.status = "REVISED"]

\* mutant of Revise: the entry appended is numbered with the count loaded
ReviseEntryOfCount(st, round_number) ==
    [st EXCEPT !.revisions = Append(@, Revision(st.revision_count)),
               !.current_draft = round_number + 1,
               !.revision_count = round_number,
               !.status = "REVISED"]

\* WriterAgent._revise, the mutation of the loaded story
Revise(st, round_number) ==
    [st EXCEPT !.revisions = Append(@, Revision(round_number)),
               !.current_draft = round_number + 1,
               !.revision_count = round_number,
               !.status = "REVISED"]

\* WriterAgent: generate returned, the Story object is updated
WriterGenerate ==
    /\ pc["writer"] = "generate"
    /\ LET m == msg["writer"]
           st == story["writer"]
       IN story' = [story EXCEPT !["writer"] =
                       IF m.action = "write_draft"
                       THEN WriteDraft(st)
                       ELSE Revise(st, Get(m.payload, "round_number", 1))]
    /\ pc' = [pc EXCEPT !["writer"] = "save"]
    /\ UNCHANGED <<review_mode, max_revisions, store, queues, msg, result, args,
                   pending_feedback, triggered, enqueued, review_rounds,
                   produced, evals, dropped, standby>>

\* mutant of AppendFeedback: the item is appended twice
AppendFeedbackTwice(st, item) == [st EXCEPT !.feedback = Append(Append(@, item), item)]

\* story.feedback.append(feedback_item)
AppendFeedback(st, item) == [st EXCEPT !.feedback = Append(@, item)]

\* ReviewerAgent / EditorAgent: generate returned a text that does or does not
\* contain "APPROVED: YES"; the FeedbackItem is appended to the loaded story
ReviewGenerate(a) ==
    /\ a \in {"reviewer", "editor"}
    /\ pc[a] = "generate"
    /\ \E approved \in BOOLEAN :
        /\ result' = [result EXCEPT ![a] = [approved |-> approved]]
        /\ produced' = produced \cup
                {[story_id |-> msg[a].story_id,
                  item |-> FeedbackItem(a, Get(msg[a].payload, "round_number", 1),
                                        approved)]}
        /\ story' = [story EXCEPT ![a] =
                        AppendFeedback(@, FeedbackItem(a,
                            Get(msg[a].payload, "round_number", 1), approved))]
    /\ pc' = [pc EXCEPT ![a] = "save"]
    /\ UNCHANGED <<review_mode, max_revisions, store, queues, msg, args,
                   pending_feedback, triggered, enqueued, review_rounds, evals,
                   dropped, standby>>

\* mutant of DesignCover: the cover designer publishes the story itself
DesignCoverPublishes(st) == [st EXCEPT !.cover_svg = TRUE, !.status = "PUBLISHED"]

\* CoverDesignerAgent._design_cover, the mutation of the loaded story
DesignCover(st) == [st EXCEPT !.cover_svg = TRUE, !.status = "DESIGNING_COVER"]

\* CoverDesignerAgent: generate returned, the svg is extracted
CoverGenerate ==
    /\ pc["cover_designer"] = "generate"
    /\ story' = [story EXCEPT !["cover_designer"] = DesignCover(@)]
    /\ pc' = [pc EXCEPT !["cover_designer"] = "save"]
    /\ UNCHANGED <<review_mode, max_revisions, store, queues, msg, result, args,
                   pending_feedback, triggered, enqueued, review_rounds,
                   produced, evals, dropped, standby>>

\* save_story(self.es, story) of a worker handler
WorkerSave(a) ==
    /\ a \in Workers
    /\ pc[a] = "save"
    /\ SaveStory(story[a])
    /\ pc' = [pc EXCEPT ![a] = "enqueue"]
    /\ UNCHANGED <<review_mode, max_revisions, queues, msg, story, result, args,
                   pending_feedback, triggered, enqueued, review_rounds,
                   produced, evals, dropped, standby>>

\* mutant of CompletionPayload: the round of the message handled is not echoed
CompletionPayloadNoRound(round_number, approved) ==
    [round_number |-> 1, approved |-> approved]

\* the payload of the completion message of a reviewer or an editor
CompletionPayload(round_number, approved) ==
    [round_number |-> round_number, approved |-> approved]

\* mutant of FollowUp: the writer reports a revision as a draft
FollowUpDraftReady(a, m, res) ==
    CASE m.action = "generate_prompt" ->
            AgentMessage(m.story_id, "prompt_ready", [genre |-> "g", theme |-> "t"],
                         a, "orchestrator")
      [] m.action \in {"write_draft", "revise"} ->
            AgentMessage(m.story_id, "draft_ready", EmptyPayload, a, "orchestrator")
      [] m.action = "review" ->
            AgentMessage(m.story_id, "review_complete",
                         CompletionPayload(Get(m.payload, "round_number", 1),
                                           res.approved),
                         a, "orchestrator")
      [] m.action = "edit" ->
            AgentMessage(m.story_id, "edit_complete",
                         CompletionPayload(Get(m.payload, "round_number", 1),
                                           res.approved),
                         a, "orchestrator")
      [] m.action = "design_cover" ->
            AgentMessage(m.story_id, "cover_ready", EmptyPayload, a, "orchestrator")

\* the message a worker pushes at the end of its handler
FollowUp(a, m, res) ==
    CASE m.action = "generate_prompt" ->
            AgentMessage(m.story_id, "prompt_ready", [genre |-> "g", theme |-> "t"],
                         a, "orchestrator")
      [] m.action = "write_draft" ->
            AgentMessage(m.story_id, "draft_ready", EmptyPayload, a, "orchestrator")
      [] m.action = "revise" ->
            AgentMessage(m.story_id, "revision_ready",
                         [round_number |-> Get(m.payload, "round_number", 1)],
                         a, "orchestrator")
      [] m.action = "review" ->
            AgentMessage(m.story_id, "review_complete",
                         CompletionPayload(Get(m.payload, "round_number", 1),
                                           res.approved),
                         a, "orchestrator")
      [] m.action = "edit" ->
            AgentMessage(m.story_id, "edit_complete",
                         CompletionPayload(Get(m.payload, "round_number", 1),
                                           res.approved),
                         a, "orchestrator")
      [] m.action = "design_cover" ->
            AgentMessage(m.story_id, "cover_ready", EmptyPayload, a, "orchestrator")

\* mutant of WorkerEnqueue: the message handled is put back on the worker's
\* queue as well
WorkerEnqueueRedelivers(a) ==
    /\ a \in Workers
    /\ pc[a] = "enqueue"
    /\ queues' = [queues EXCEPT
                     ![QUEUE_ORCHESTRATOR] = Append(@, FollowUp(a, msg[a], result[a])),
                     ![ListenQueue(a)] = Append(@, msg[a])]
    /\ enqueued' = enqueued (+)
                      SetToBag({LogLine(QUEUE_ORCHESTRATOR,
                                        FollowUp(a, msg[a], result[a]))})
    /\ Return(a)
    /\ UNCHANGED <<review_mode, max_revisions, store, args, pending_feedback,
                   triggered, review_rounds, produced, evals, dropped, standby>>

\* enqueue_message(self.redis, QUEUE_ORCHESTRATOR, ...) of a worker handler,
\* after which the handler returns
WorkerEnqueue(a) ==
    /\ a \in Workers
    /\ pc[a] = "enqueue"
    /\ Enqueue(QUEUE_ORCHESTRATOR, FollowUp(a, msg[a], result[a]))
    /\ Return(a)
    /\ UNCHANGED <<review_mode, max_revisions, store, args, pending_feedback,
                   triggered, review_rounds, produced, evals, dropped, standby>>

(***************************************************************************)
(* Orchestrator (EditorInChiefAgent)                                       *)
(***************************************************************************)
O == "orchestrator"

\* mutant of IsParallel: the mode test always succeeds
AlwaysParallel(mode) == TRUE

\* review_mode == "parallel", the test of _send_for_review,
\* _handle_review_complete and _handle_edit_complete
IsParallel(mode) == mode = "parallel"

\* mutant of StartPayload: the payload is forwarded as it came
StartPayloadAsIs(payload) == payload

\* _handle_start_new_story: user_prompt and model are forwarded when non-empty
StartPayload(payload) ==
    TriggerPayload(Get(payload, "user_prompt", ""), Get(payload, "model", ""))

OrchStartNewStory ==
    /\ pc[O] = "handle"
    /\ msg[O].action = "start_new_story"
    /\ Enqueue(QUEUE_PROMPT_GENERATOR,
               AgentMessage(msg[O].story_id, "generate_prompt",
                            StartPayload(msg[O].payload), O, "prompt_generator"))
    /\ Return(O)
    /\ UNCHANGED <<review_mode, max_revisions, store, args, pending_feedback,
                   triggered, review_rounds, produced, evals, dropped, standby>>

\* _handle_prompt_ready
OrchPromptReady ==
    /\ pc[O] = "handle"
    /\ msg[O].action = "prompt_ready"
    /\ Enqueue(QUEUE_WRITER,
               AgentMessage(msg[O].story_id, "write_draft", EmptyPayload, O, "writer"))
    /\ Return(O)
    /\ UNCHANGED <<review_mode, max_revisions, store, args, pending_feedback,
                   triggered, review_rounds, produced, evals, dropped, standby>>

\* get_story of _handle_draft_ready, _handle_revision_ready and
\* _handle_cover_ready, and the status the handler then sets on the object
OrchLoad ==
    /\ pc[O] = "handle"
    /\ msg[O].action \in {"draft_ready", "revision_ready", "cover_ready"}
    /\ LET st == GetStory(msg[O].story_id)
       IN IF st = NoStory
          THEN NotFound(O)
          ELSE /\ story' = [story EXCEPT ![O] =
                              [st EXCEPT !.status =
                                  IF msg[O].action = "cover_ready"
                                  THEN "PUBLISHED" ELSE "IN_REVIEW"]]
               /\ pc' = [pc EXCEPT ![O] =
                            IF msg[O].action = "cover_ready"
                            THEN "publish" ELSE "save_in_review"]
               /\ UNCHANGED <<msg, result, dropped>>
    /\ UNCHANGED <<review_mode, max_revisions, store, queues, args,
                   pending_feedback, triggered, enqueued, review_rounds,
                   produced, evals, standby>>

\* save_story of _handle_draft_ready / _handle_revision_ready
OrchSaveInReview ==
    /\ pc[O] = "save_in_review"
    /\ SaveStory(story[O])
    /\ pc' = [pc EXCEPT ![O] = "send_for_review"]
    /\ UNCHANGED <<review_mode, max_revisions, queues, msg, story, result, args,
                   pending_feedback, triggered, enqueued, review_rounds,
                   produced, evals, dropped, standby>>

\* _handle_draft_ready: round_number = story.revision_count + 1
DraftRound(st) == st.revision_count + 1

\* mutant of RevisionRound: the round of the message is reused as it is
RevisionRoundSame(m, st) == Get(m.payload, "round_number", st.revision_count)

\* _handle_revision_ready:
\* round_number = message.payload.get("round_number", story.revision_count) + 1
RevisionRound(m, st) == Get(m.payload, "round_number", st.revision_count) + 1

ReviewRound(m, st) ==
    IF m.action = "draft_ready" THEN DraftRound(st) ELSE RevisionRound(m, st)

\* mutant of RoundMessage: the edit message carries no round_number
RoundMessageEditBare(sid, action, round_number, target) ==
    AgentMessage(sid, action,
                 IF action = "edit" THEN EmptyPayload
                 ELSE [round_number |-> round_number], O, target)

\* the review / edit message of a round
RoundMessage(sid, action, round_number, target) ==
    AgentMessage(sid, action, [round_number |-> round_number], O, target)

\* _send_for_review: in parallel mode the join entry is reset and the review
\* message is pushed (the edit message follows); in sequential mode only the
\* review message is pushed
OrchSendForReview ==
    /\ pc[O] = "send_for_review"
    /\ LET sid == msg[O].story_id
           round_number == ReviewRound(msg[O], story[O])
       IN /\ review_rounds' = Append(review_rounds,
                                     [story_id |-> sid, round_number |-> round_number])
          /\ Enqueue(QUEUE_REVIEWER, RoundMessage(sid, "review", round_number, "reviewer"))
          /\ IF IsParallel(review_mode)
             THEN /\ pending_feedback' =
                        [s \in DOMAIN pending_feedback \cup {sid} |->
                            IF s = sid THEN EmptyPayload ELSE pending_feedback[s]]
                  /\ pc' = [pc EXCEPT ![O] = "send_edit"]
                  /\ UNCHANGED <<msg, story, result>>
             ELSE /\ Return(O)
                  /\ UNCHANGED pending_feedback
    /\ UNCHANGED <<review_mode, max_revisions, store, args, triggered, produced,
                   evals, dropped, standby>>

\* _send_for_review, parallel mode: the edit message of the same round
OrchSendEdit ==
    /\ pc[O] = "send_edit"
    /\ Enqueue(QUEUE_EDITOR,
               RoundMessage(msg[O].story_id, "edit",
                            ReviewRound(msg[O], story[O]), "editor"))
    /\ Return(O)
    /\ UNCHANGED <<review_mode, max_revisions, store, args, pending_feedback,
                   triggered, review_rounds, produced, evals, dropped, standby>>

\* _handle_review_complete, sequential mode: forward the round to the editor
OrchReviewCompleteSequential ==
    /\ pc[O] = "handle"
    /\ msg[O].action = "review_complete"
    /\ ~IsParallel(review_mode)
    /\ Enqueue(QUEUE_EDITOR,
               RoundMessage(msg[O].story_id, "edit",
                            Get(msg[O].payload, "round_number", 1), "editor"))
    /\ Return(O)
    /\ UNCHANGED <<review_mode, max_revisions, store, args, pending_feedback,
                   triggered, review_rounds, produced, evals, dropped, standby>>

\* the agent_type _handle_review_complete / _handle_edit_complete pass on
AgentType(action) == IF action = "review_complete" THEN "reviewer" ELSE "editor"

\* mutant of RecordFeedback: the payload is stored under both roles
RecordFeedbackBoth(pf, sid, agent_type, payload) ==
    [s \in DOMAIN pf \cup {sid} |->
        IF s = sid THEN [k \in {"reviewer", "editor"} |-> payload] ELSE pf[s]]

\* self._pending_feedback[story_id][agent_type] = message.payload, on an
\* entry created empty if the story has none
RecordFeedback(pf, sid, agent_type, payload) ==
    LET old == IF sid \in DOMAIN pf THEN pf[sid] ELSE EmptyPayload
        new == [k \in DOMAIN old \cup {agent_type} |->
                   IF k = agent_type THEN payload ELSE old[k]]
    IN [s \in DOMAIN pf \cup {sid} |-> IF s = sid THEN new ELSE pf[s]]

\* mutant of BothIn: the editor's key is misspelt
BothInMisspelt(fb) == "reviewer" \in DOMAIN fb /\ "editors" \in DOMAIN fb

\* mutant of BothIn: one of the two is enough
EitherIn(fb) == "reviewer" \in DOMAIN fb \/ "editor" \in DOMAIN fb

\* "reviewer" in fb and "editor" in fb
BothIn(fb) == "reviewer" \in DOMAIN fb /\ "editor" \in DOMAIN fb

\* _handle_parallel_feedback up to the check that both are in
OrchParallelFeedback ==
    /\ pc[O] = "handle"
    /\ msg[O].action \in {"review_complete", "edit_complete"}
    /\ IsParallel(review_mode)
    /\ LET sid == msg[O].story_id
           pf == RecordFeedback(pending_feedback, sid,
                                AgentType(msg[O].action), msg[O].payload)
       IN /\ pending_feedback' = pf
          /\ IF BothIn(pf[sid])
             THEN /\ pc' = [pc EXCEPT ![O] = "load_feedback"]
                  /\ UNCHANGED <<msg, story, result>>
             ELSE Return(O)
    /\ UNCHANGED <<review_mode, max_revisions, store, queues, args, triggered,
                   enqueued, review_rounds, produced, evals, dropped, standby>>

\* next((f for f in round_feedback if f.agent == agent), None)
RoundFeedback(st, agent, round_number) ==
    LET idx == {i \in 1..Len(st.feedback) :
                   /\ st.feedback[i].round_number = round_number
                   /\ st.feedback[i].agent = agent}
    IN IF idx = {} THEN NoFeedback
       ELSE st.feedback[CHOOSE i \in idx : \A j \in idx : i <= j]

\* f.approved if f else False
ApprovedOf(f) == IF f = NoFeedback THEN FALSE ELSE f.approved

\* mutant of SequentialArgs: the flags are taken from the payload of the
\* edit_complete message
SequentialArgsFromMessage(m, st) ==
    [reviewer_approved |-> Get(m.payload, "approved", FALSE),
     editor_approved |-> Get(m.payload, "approved", FALSE),
     round_number |-> Get(m.payload, "round_number", 1)]

\* the arguments _handle_edit_complete reads back from the stored story
SequentialArgs(m, st) ==
    LET round_number == Get(m.payload, "round_number", 1)
    IN [reviewer_approved |-> ApprovedOf(RoundFeedback(st, "reviewer", round_number)),
        editor_approved |-> ApprovedOf(RoundFeedback(st, "editor", round_number)),
        round_number |-> round_number]

\* mutant of ParallelArgs: the reviewer's flag is read from the message that
\* completed the join instead of the join entry
ParallelArgsFromMessage(m, fb) ==
    [reviewer_approved |-> Get(m.payload, "approved", FALSE),
     editor_approved |-> Get(fb["editor"], "approved", FALSE),
     round_number |-> Get(m.payload, "round_number", 1)]

\* mutant of ParallelArgs: both flags are those of the completion that arrived
\* last
ParallelArgsLastWins(m, fb) ==
    [reviewer_approved |-> Get(m.payload, "approved", FALSE),
     editor_approved |-> Get(m.payload, "approved", FALSE),
     round_number |-> Get(m.payload, "round_number", 1)]

\* the arguments _handle_parallel_feedback takes from the join entry and from
\* the message that completed it
ParallelArgs(m, fb) ==
    [reviewer_approved |-> Get(fb["reviewer"], "approved", FALSE),
     editor_approved |-> Get(fb["editor"], "approved", FALSE),
     round_number |-> Get(m.payload, "round_number", 1)]

\* get_story before _evaluate_and_decide: in _handle_edit_complete
\* (sequential) and in _handle_parallel_feedback once both are in
OrchLoadFeedback ==
    /\ \/ pc[O] = "load_feedback"
       \/ /\ pc[O] = "handle"
          /\ msg[O].action = "edit_complete"
          /\ ~IsParallel(review_mode)
    /\ LET st == GetStory(msg[O].story_id)
       IN IF st = NoStory
          THEN /\ NotFound(O)
               /\ UNCHANGED args
          ELSE /\ story' = [story EXCEPT ![O] = st]
               /\ args' = IF IsParallel(review_mode)
                          THEN ParallelArgs(msg[O], pending_feedback[msg[O].story_id])
                          ELSE SequentialArgs(msg[O], st)
               /\ pc' = [pc EXCEPT ![O] = "evaluate"]
               /\ UNCHANGED <<msg, result, dropped>>
    /\ UNCHANGED <<review_mode, max_revisions, store, queues, pending_feedback,
                   triggered, enqueued, review_rounds, produced, evals,
                   standby>>

\* mutant of Decide: the cap test written round_number > max_revisions
DecideStrictCap(reviewer_approved, editor_approved, round_number, maxrev) ==
    IF reviewer_approved /\ editor_approved THEN "story_approved"
    ELSE IF round_number > maxrev THEN "max_revisions_reached"
    ELSE "revision_needed"

\* mutant of Decide: the cap test left out
DecideNoCap(reviewer_approved, editor_approved, round_number, maxrev) ==
    IF reviewer_approved /\ editor_approved THEN "story_approved"
    ELSE "revision_needed"

\* the branch _evaluate_and_decide takes, named by the activity it logs
Decide(reviewer_approved, editor_approved, round_number, maxrev) ==
    IF reviewer_approved /\ editor_approved THEN "story_approved"
    ELSE IF round_number >= maxrev THEN "max_revisions_reached"
    ELSE "revision_needed"

\* _evaluate_and_decide is entered: the branch is taken; on approval the
\* object's status is set, otherwise the feedback summary is requested
OrchEvaluate ==
    /\ pc[O] = "evaluate"
    /\ LET branch == Decide(args.reviewer_approved, args.editor_approved,
                            args.round_number, story[O].max_revisions)
       IN /\ evals' = Append(evals,
                 [story_id |-> story[O].story_id,
                  round_number |-> args.round_number,
                  reviewer_approved |-> args.reviewer_approved,
                  editor_approved |-> args.editor_approved,
                  max_revisions |-> story[O].max_revisions,
                  branch |-> branch])
          /\ IF branch = "revision_needed"
             THEN /\ pc' = [pc EXCEPT ![O] = "generate"]
                  /\ UNCHANGED story
             ELSE /\ pc' = [pc EXCEPT ![O] = "save_approved"]
                  /\ story' = [story EXCEPT ![O].status = "APPROVED"]
    /\ UNCHANGED <<review_mode, max_revisions, store, queues, msg, result, args,
                   pending_feedback, triggered, enqueued, review_rounds,
                   produced, dropped, standby>>

\* mutant of OrchSaveApproved: the design_cover message is pushed next, before
\* DESIGNING_COVER is saved
OrchSaveApprovedThenEnqueue ==
    /\ pc[O] = "save_approved"
    /\ SaveStory(story[O])
    /\ story' = [story EXCEPT ![O].status = "DESIGNING_COVER"]
    /\ pc' = [pc EXCEPT ![O] = "enqueue_design_cover"]
    /\ UNCHANGED <<review_mode, max_revisions, queues, msg, result, args,
                   pending_feedback, triggered, enqueued, review_rounds,
                   produced, evals, dropped, standby>>

\* save_story with status APPROVED, then _send_for_cover_design sets
\* DESIGNING_COVER on the object
OrchSaveApproved ==
    /\ pc[O] = "save_approved"
    /\ SaveStory(story[O])
    /\ story' = [story EXCEPT ![O].status = "DESIGNING_COVER"]
    /\ pc' = [pc EXCEPT ![O] = "save_designing_cover"]
    /\ UNCHANGED <<review_mode, max_revisions, queues, msg, result, args,
                   pending_feedback, triggered, enqueued, review_rounds,
                   produced, evals, dropped, standby>>

\* _send_for_cover_design: save_story with status DESIGNING_COVER
OrchSaveDesigningCover ==
    /\ pc[O] = "save_designing_cover"
    /\ SaveStory(story[O])
    /\ pc' = [pc EXCEPT ![O] = "enqueue_design_cover"]
    /\ UNCHANGED <<review_mode, max_revisions, queues, msg, story, result, args,
                   pending_feedback, triggered, enqueued, review_rounds,
                   produced, evals, dropped, standby>>

\* del self._pending_feedback[story_id], which _handle_parallel_feedback
\* runs when _evaluate_and_decide has returned
DeletePending(pf, sid) ==
    IF IsParallel(review_mode) THEN [s \in DOMAIN pf \ {sid} |-> pf[s]] ELSE pf

\* mutant of OrchEnqueueDesignCover: the design_cover message is pushed twice
OrchEnqueueDesignCoverTwice ==
    /\ pc[O] = "enqueue_design_cover"
    /\ LET m == AgentMessage(story[O].story_id, "design_cover", EmptyPayload,
                             O, "cover_designer")
       IN /\ queues' = [queues EXCEPT ![QUEUE_COVER_DESIGNER] = Append(Append(@, m), m)]
          /\ enqueued' = enqueued (+) SetToBag({LogLine(QUEUE_COVER_DESIGNER, m)})
                                  (+) SetToBag({LogLine(QUEUE_COVER_DESIGNER, m)})
    /\ pending_feedback' = DeletePending(pending_feedback, story[O].story_id)
    /\ args' = NoArgs
    /\ Return(O)
    /\ UNCHANGED <<review_mode, max_revisions, store, triggered, review_rounds,
                   produced, evals, dropped, standby>>

\* _send_for_cover_design: the design_cover message; the handler returns
OrchEnqueueDesignCover ==
    /\ pc[O] = "enqueue_design_cover"
    /\ Enqueue(QUEUE_COVER_DESIGNER,
               AgentMessage(story[O].story_id, "design_cover", EmptyPayload,
                            O, "cover_designer"))
    /\ pending_feedback' = DeletePending(pending_feedback, story[O].story_id)
    /\ args' = NoArgs
    /\ Return(O)
    /\ UNCHANGED <<review_mode, max_revisions, store, triggered, review_rounds,
                   produced, evals, dropped, standby>>

\* _evaluate_and_decide, revision branch: generate returned the summary and
\* the object's status is set
OrchGenerate ==
    /\ pc[O] = "generate"
    /\ result' = [result EXCEPT ![O] = [text |-> "summary"]]
    /\ story' = [story EXCEPT ![O].status = "REVISION_NEEDED"]
    /\ pc' = [pc EXCEPT ![O] = "save_revision_needed"]
    /\ UNCHANGED <<review_mode, max_revisions, store, queues, msg, args,
                   pending_feedback, triggered, enqueued, review_rounds,
                   produced, evals, dropped, standby>>

\* save_story with status REVISION_NEEDED
OrchSaveRevisionNeeded ==
    /\ pc[O] = "save_revision_needed"
    /\ SaveStory(story[O])
    /\ pc' = [pc EXCEPT ![O] = "enqueue_revise"]
    /\ UNCHANGED <<review_mode, max_revisions, queues, msg, story, result, args,
                   pending_feedback, triggered, enqueued, review_rounds,
                   produced, evals, dropped, standby>>

\* mutant of RevisePayload: the message carries the next round
RevisePayloadNextRound(round_number, summary) ==
    [round_number |-> round_number + 1, feedback_summary |-> summary]

\* the payload of the revise message
RevisePayload(round_number, summary) ==
    [round_number |-> round_number, feedback_summary |-> summary]

\* the revise message to the writer; the handler returns
OrchEnqueueRevise ==
    /\ pc[O] = "enqueue_revise"
    /\ Enqueue(QUEUE_WRITER,
               AgentMessage(story[O].story_id, "revise",
                            RevisePayload(args.round_number, result[O].text),
                            O, "writer"))
    /\ pending_feedback' = DeletePending(pending_feedback, story[O].story_id)
    /\ args' = NoArgs
    /\ Return(O)
    /\ UNCHANGED <<review_mode, max_revisions, store, triggered, review_rounds,
                   produced, evals, dropped, standby>>

\* _publish_story: save_story with status PUBLISHED
OrchPublish ==
    /\ pc[O] = "publish"
    /\ SaveStory(story[O])
    /\ Return(O)
    /\ UNCHANGED <<review_mode, max_revisions, queues, args, pending_feedback,
                   triggered, enqueued, review_rounds, produced, evals, dropped,
                   standby>>

(***************************************************************************)
(* The system: one orchestrator, one instance of each worker, no failures  *)
(***************************************************************************)
Next ==
    \/ Trigger
    \/ \E a \in Agents : Dequeue(a)
    \/ \E a \in Workers : WorkerLoad(a)
    \/ PromptGenerate
    \/ WriterGenerate
    \/ \E a \in Workers : ReviewGenerate(a)
    \/ CoverGenerate
    \/ \E a \in Workers : WorkerSave(a)
    \/ \E a \in Workers : WorkerEnqueue(a)
    \/ OrchStartNewStory
    \/ OrchPromptReady
    \/ OrchLoad
    \/ OrchSaveInReview
    \/ OrchSendForReview
    \/ OrchSendEdit
    \/ OrchReviewCompleteSequential
    \/ OrchParallelFeedback
    \/ OrchLoadFeedback
    \/ OrchEvaluate
    \/ OrchSaveApproved
    \/ OrchSaveDesigningCover
    \/ OrchEnqueueDesignCover
    \/ OrchGenerate
    \/ OrchSaveRevisionNeeded
    \/ OrchEnqueueRevise
    \/ OrchPublish

Spec == Init /\ [][Next]_vars

(***************************************************************************)
(* Failures: get_story returning None, and generate, save_story or         *)
(* enqueue_message raising inside a handler (BaseAgent.run's except        *)
(* clause)                                                                 *)
(***************************************************************************)
\* largest configured max_revisions explored with failures
FaultRevisionsLimit == 2

InitFaults == InitWith(FaultRevisionsLimit)

\* the external call the agent's handler makes next, "none" when the next
\* step is get_story or purely local
Calling(a) ==
    CASE pc[a] = "generate" -> "generate"
      [] pc[a] = "handle" /\ a = "prompt_generator" -> "generate"
      [] pc[a] \in {"save", "save_in_review", "save_approved",
                    "save_designing_cover", "save_revision_needed", "publish"} ->
            "save_story"
      [] pc[a] \in {"enqueue", "send_for_review", "send_edit",
                    "enqueue_design_cover", "enqueue_revise"} ->
            "enqueue_message"
      [] /\ pc[a] = "handle"
         /\ a = O
         /\ \/ msg[a].action \in {"start_new_story", "prompt_ready"}
            \/ msg[a].action = "review_complete" /\ ~IsParallel(review_mode) ->
            "enqueue_message"
      [] OTHER -> "none"

\* what the orchestrator's except clause finds of the frame that was unwound
Unwound(a) == IF a = O THEN NoArgs ELSE args

\* mutant of Raise: the exception handler marks the story as failed
RaiseMarksFailed(a) ==
    /\ Calling(a) # "none"
    /\ pc' = [pc EXCEPT ![a] = "except"]
    /\ result' = [result EXCEPT ![a] = [raised |-> Calling(a)]]
    /\ dropped' = dropped \cup {[message |-> msg[a], error |-> "agent_error"]}
    /\ args' = Unwound(a)
    /\ store' = [s \in StoryIds |->
                    IF s = msg[a].story_id /\ store[s] # NoStory
                    THEN [store[s] EXCEPT !.status = "FAILED"] ELSE store[s]]
    /\ UNCHANGED <<review_mode, max_revisions, queues, msg, story,
                   pending_feedback, triggered, enqueued, review_rounds,
                   produced, evals, standby>>

\* the call raises: control leaves the handler for the except clause of
\* BaseAgent.run, which logs "agent_error"; nothing else has changed
Raise(a) ==
    /\ Calling(a) # "none"
    /\ pc' = [pc EXCEPT ![a] = "except"]
    /\ result' = [result EXCEPT ![a] = [raised |-> Calling(a)]]
    /\ dropped' = dropped \cup {[message |-> msg[a], error |-> "agent_error"]}
    /\ args' = Unwound(a)
    /\ UNCHANGED <<review_mode, max_revisions, store, queues, msg, story,
                   pending_feedback, triggered, enqueued, review_rounds,
                   produced, evals, standby>>

\* mutant of ExceptLogged: the message is pushed back on the agent's queue
ExceptRequeue(a) ==
    /\ pc[a] = "except"
    /\ queues' = [queues EXCEPT ![ListenQueue(a)] = Append(@, msg[a])]
    /\ Return(a)
    /\ UNCHANGED <<review_mode, max_revisions, store, args, pending_feedback,
                   triggered, enqueued, review_rounds, produced, evals, dropped,
                   standby>>

\* the except clause: self.log_activity("error", ...) returned and the sleep
\* is over; the loop pops again
ExceptLogged(a) ==
    /\ pc[a] = "except"
    /\ Return(a)
    /\ UNCHANGED <<review_mode, max_revisions, store, queues, args,
                   pending_feedback, triggered, enqueued, review_rounds,
                   produced, evals, dropped, standby>>

\* the except clause: self.log_activity("error", ...) raises (publish_activity
\* or the activity index); the exception leaves the while loop and run()
ExceptLogFails(a) ==
    /\ pc[a] = "except"
    /\ pc' = [pc EXCEPT ![a] = "exited"]
    /\ msg' = [msg EXCEPT ![a] = NoMsg]
    /\ story' = [story EXCEPT ![a] = NoStory]
    /\ result' = [result EXCEPT ![a] = NoResult]
    /\ UNCHANGED <<review_mode, max_revisions, store, queues, args,
                   pending_feedback, triggered, enqueued, review_rounds,
                   produced, evals, dropped, standby>>

\* get_story returns None (document missing or the Document Store failing) at
\* the head of a writer, reviewer, editor or cover designer handler
WorkerLoadFails(a) ==
    /\ a \in Workers \ {"prompt_generator"}
    /\ pc[a] = "handle"
    /\ msg[a].action \in Accepts(a)
    /\ NotFound(a)
    /\ UNCHANGED <<review_mode, max_revisions, store, queues, args,
                   pending_feedback, triggered, enqueued, review_rounds,
                   produced, evals, standby>>

\* the orchestrator is about to call get_story
OrchLoading ==
    \/ pc[O] = "load_feedback"
    \/ /\ pc[O] = "handle"
       /\ \/ msg[O].action \in {"draft_ready", "revision_ready", "cover_ready"}
          \/ msg[O].action = "edit_complete" /\ ~IsParallel(review_mode)

\* mutant of OrchLoadFails: the message is pushed back for a retry
OrchLoadFailsRequeue ==
    /\ OrchLoading
    /\ queues' = [queues EXCEPT ![QUEUE_ORCHESTRATOR] = Append(@, msg[O])]
    /\ NotFound(O)
    /\ UNCHANGED <<review_mode, max_revisions, store, args, pending_feedback,
                   triggered, enqueued, review_rounds, produced, evals,
                   standby>>

\* get_story returns None in _handle_draft_ready, _handle_revision_ready,
\* _handle_edit_complete (sequential), _handle_parallel_feedback (both in) or
\* _handle_cover_ready: the handler returns
OrchLoadFails ==
    /\ OrchLoading
    /\ NotFound(O)
    /\ UNCHANGED <<review_mode, max_revisions, store, queues, args,
                   pending_feedback, triggered, enqueued, review_rounds,
                   produced, evals, standby>>

NextFaults ==
    \/ Next
    \/ \E a \in Agents : Raise(a)
    \/ \E a \in Agents : ExceptLogged(a)
    \/ \E a \in Agents : ExceptLogFails(a)
    \/ \E a \in Workers : WorkerLoadFails(a)
    \/ OrchLoadFails

SpecFaults == InitFaults /\ [][NextFaults]_vars

(***************************************************************************)
(* Stray messages: a producer pushes a message whose action the component  *)
(* listening on the queue does not dispatch                                *)
(***************************************************************************)
InitStray == InitWith(FaultRevisionsLimit)

\* the dispatch table of a component's handle_message
Dispatch(a) ==
    IF a = O
    THEN {"start_new_story", "prompt_ready", "draft_ready", "review_complete",
          "edit_complete", "revision_ready", "cover_ready"}
    ELSE Accepts(a)

\* the component a queue is read by
Listener(q) == CHOOSE a \in Agents : ListenQueue(a) = q

\* the action a stray message carries, in no component's table
StrayActions == {"bogus"}

\* enqueue_message by a producer outside the pipeline; one stray message per run
InjectStray ==
    /\ \A l \in BagToSet(enqueued) : l.action \in Dispatch(Listener(l.queue))
    /\ \E a \in Agents : \E action \in StrayActions \ Dispatch(a) :
       \E sid \in StoryIds :
          Enqueue(ListenQueue(a),
                  AgentMessage(sid, action, EmptyPayload, "stray", a))
    /\ UNCHANGED <<review_mode, max_revisions, store, pc, msg, story, result,
                   args, pending_feedback, triggered, review_rounds, produced,
                   evals, dropped, standby>>

\* mutant of UnknownAction: the message is pushed back on the queue
UnknownActionRequeue(a) ==
    /\ pc[a] = "handle"
    /\ msg[a].action \notin Dispatch(a)
    /\ queues' = [queues EXCEPT ![ListenQueue(a)] = Append(@, msg[a])]
    /\ dropped' = dropped \cup {[message |-> msg[a], error |-> "unknown_action"]}
    /\ Return(a)
    /\ UNCHANGED <<review_mode, max_revisions, store, args,
                   pending_feedback, triggered, enqueued, review_rounds,
                   produced, evals, standby>>

\* handle_message finds no handler for the action:
\* logger.warning("unknown_action", ...) and return
UnknownAction(a) ==
    /\ pc[a] = "handle"
    /\ msg[a].action \notin Dispatch(a)
    /\ dropped' = dropped \cup {[message |-> msg[a], error |-> "unknown_action"]}
    /\ Return(a)
    /\ UNCHANGED <<review_mode, max_revisions, store, queues, args,
                   pending_feedback, triggered, enqueued, review_rounds,
                   produced, evals, standby>>

NextStray ==
    \/ Next
    \/ InjectStray
    \/ \E a \in Agents : UnknownAction(a)

SpecStray == InitStray /\ [][NextStray]_vars

(***************************************************************************)
(* Orchestrator restart: the process is stopped at any point and started   *)
(* again; __init__ runs, so the join map is empty, and the message being   *)
(* handled, already popped, is gone                                        *)
(***************************************************************************)
InitRestart == InitWith(FaultRevisionsLimit)

\* the completion message a join entry's half was recorded from
HalfMessage(sid, agent_type, payload) ==
    AgentMessage(sid, IF agent_type = "reviewer" THEN "review_complete"
                      ELSE "edit_complete",
                 payload, agent_type, O)

\* the halves of the join entries that wait for their other half
Halves(pf) ==
    {[message |-> HalfMessage(y[1], y[2], pf[y[1]][y[2]]), error |-> "join_lost"] :
        y \in {z \in (DOMAIN pf) \X {"reviewer", "editor"} :
                  /\ z[2] \in DOMAIN pf[z[1]]
                  /\ Cardinality(DOMAIN pf[z[1]]) = 1}}

\* the message the orchestrator was handling when it was stopped
InHand ==
    IF msg[O] = NoMsg THEN {} ELSE {[message |-> msg[O], error |-> "restart"]}

\* mutant of OrchRestart: the join map survives the restart
OrchRestartDurable ==
    /\ dropped' = dropped \cup Halves(pending_feedback) \cup InHand
    /\ Return(O)
    /\ UNCHANGED <<review_mode, max_revisions, store, queues, args,
                   pending_feedback, triggered, enqueued, review_rounds,
                   produced, evals, standby>>

\* the orchestrator process is restarted: EditorInChiefAgent.__init__ sets
\* self._pending_feedback = {} and run() blocks in its first pop
OrchRestart ==
    /\ dropped' = dropped \cup Halves(pending_feedback) \cup InHand
    /\ pending_feedback' = [s \in {} |-> 0]
    /\ Return(O)
    /\ UNCHANGED <<review_mode, max_revisions, store, queues, args, triggered,
                   enqueued, review_rounds, produced, evals, standby>>

NextRestart ==
    \/ Next
    \/ OrchRestart

SpecRestart == InitRestart /\ [][NextRestart]_vars

(***************************************************************************)
(* Fair scheduling: every agent is a process of its own whose loop keeps   *)
(* running, so a step an agent can take is eventually taken                *)
(***************************************************************************)
\* largest configured max_revisions explored under fairness
FairRevisionsLimit == 2

InitFair == InitWith(FairRevisionsLimit)

\* a step of agent a
AgentStep(a) == Next /\ pc'[a] # pc[a]

FairSpec ==
    InitFair /\ [][Next]_vars /\ \A a \in Agents : WF_vars(AgentStep(a))

(***************************************************************************)
(* Two orchestrator instances: a second EditorInChiefAgent process pops    *)
(* from the same control queue, with locals and a join map of its own.     *)
(* The instance whose step comes next is the one held in pc[O], msg[O],    *)
(* story[O], result[O], args and pending_feedback; the other is in standby *)
(***************************************************************************)
InitTwo == InitWith(FairRevisionsLimit)

\* EditorInChiefAgent() of the second process: blocked in its first pop with
\* an empty join map
NewInstance ==
    [pc |-> "idle", msg |-> NoMsg, story |-> NoStory, result |-> NoResult,
     args |-> NoArgs, pending_feedback |-> [s \in {} |-> 0]]

\* the second orchestrator process is started
StartSecond ==
    /\ standby = NoInstance
    /\ standby' = NewInstance
    /\ UNCHANGED <<review_mode, max_revisions, store, queues, pc, msg, story,
                   result, args, pending_feedback, triggered, enqueued,
                   review_rounds, produced, evals, dropped>>

\* the other instance can take a step: it is inside a handler, or blocked in
\* its pop with a message on the control queue
StandbyReady ==
    /\ standby # NoInstance
    /\ standby.pc # "idle" \/ queues[QUEUE_ORCHESTRATOR] # <<>>

\* the next orchestrator step is the other instance's
Switch ==
    /\ StandbyReady
    /\ pc' = [pc EXCEPT ![O] = standby.pc]
    /\ msg' = [msg EXCEPT ![O] = standby.msg]
    /\ story' = [story EXCEPT ![O] = standby.story]
    /\ result' = [result EXCEPT ![O] = standby.result]
    /\ args' = standby.args
    /\ pending_feedback' = standby.pending_feedback
    /\ standby' = [pc |-> pc[O], msg |-> msg[O], story |-> story[O],
                   result |-> result[O], args |-> args,
                   pending_feedback |-> pending_feedback]
    /\ UNCHANGED <<review_mode, max_revisions, store, queues, triggered,
                   enqueued, review_rounds, produced, evals, dropped>>

NextTwo ==
    \/ Next
    \/ StartSecond
    \/ Switch

\* a step of an orchestrator instance inside a handler or with a message to pop
OrchStep == Next /\ (pc'[O] # pc[O] \/ msg'[O] # msg[O])

\* each worker and each orchestrator instance is a process whose loop keeps
\* running: an instance that can step again and again does step
SpecTwo ==
    /\ InitTwo
    /\ [][NextTwo]_vars
    /\ \A a \in Workers : WF_vars(AgentStep(a))
    /\ SF_vars(OrchStep)
    /\ SF_vars(Switch)

(***************************************************************************)
(* Properties                                                              *)
(***************************************************************************)
InQueue(q) == {queues[q][i] : i \in DOMAIN queues[q]}

IsPrefix(a, b) == Len(a) <= Len(b) /\ SubSeq(b, 1, Len(a)) = a

\* the review rounds started and the evaluations made for one story
RoundsOf(sid) == SelectSeq(review_rounds, LAMBDA x : x.story_id = sid)
EvalsOf(sid) == SelectSeq(evals, LAMBDA x : x.story_id = sid)

\* the decision the specification gives for an evaluation
SpecDecision(reviewer_approved, editor_approved, round_number, maxrev) ==
    IF (reviewer_approved /\ editor_approved) \/ round_number >= maxrev
    THEN "APPROVE" ELSE "REVISE"

DecisionOf(e) ==
    SpecDecision(e.reviewer_approved, e.editor_approved, e.round_number,
                 e.max_revisions)

LastEval == evals[Len(evals)]

\* nothing queued and every agent blocked in its pop
Quiescent ==
    /\ \A q \in QueueNames : queues[q] = <<>>
    /\ \A a \in Agents : pc[a] = "idle"

\* C1, the decision: the branch taken by every evaluation is the approval
\* branch exactly when both flags are true or round_number >= max_revisions,
\* and the revision branch otherwise; the orchestrator is on the approval
\* path or on the revision path of the handler accordingly
C1_Decision ==
    /\ \A i \in DOMAIN evals :
          IF DecisionOf(evals[i]) = "APPROVE"
          THEN evals[i].branch \in {"story_approved", "max_revisions_reached"}
          ELSE evals[i].branch = "revision_needed"
    /\ pc[O] \in {"save_approved", "save_designing_cover", "enqueue_design_cover"}
          => DecisionOf(LastEval) = "APPROVE"
    /\ pc[O] \in {"generate", "save_revision_needed", "enqueue_revise"}
          => DecisionOf(LastEval) = "REVISE"

\* C1, the outcome: the step that persists the first status of an approval
\* stores APPROVED, and the step that ends the handler has, on approval,
\* status DESIGNING_COVER stored and exactly one design_cover message pushed
\* and, on revision, status REVISION_NEEDED stored and exactly one revise
\* message pushed to the writer; no other queue changes
C1_Outcome ==
    /\ (pc[O] = "evaluate" /\ pc'[O] # "evaluate") =>
          pc'[O] = (IF DecisionOf(evals'[Len(evals')]) = "APPROVE"
                    THEN "save_approved" ELSE "generate")
    /\ (pc[O] = "save_approved" /\ pc'[O] # "save_approved") =>
          /\ DecisionOf(LastEval) = "APPROVE"
          /\ store'[LastEval.story_id].status = "APPROVED"
    /\ (pc[O] \in {"enqueue_design_cover", "enqueue_revise"} /\ pc'[O] = "idle") =>
          LET sid == LastEval.story_id
              q == IF DecisionOf(LastEval) = "APPROVE"
                   THEN QUEUE_COVER_DESIGNER ELSE QUEUE_WRITER
          IN /\ store'[sid].status = (IF DecisionOf(LastEval) = "APPROVE"
                                      THEN "DESIGNING_COVER" ELSE "REVISION_NEEDED")
             /\ Len(queues'[q]) = Len(queues[q]) + 1
             /\ SubSeq(queues'[q], 1, Len(queues[q])) = queues[q]
             /\ queues'[q][Len(queues'[q])].story_id = sid
             /\ queues'[q][Len(queues'[q])].action =
                   (IF DecisionOf(LastEval) = "APPROVE" THEN "design_cover" ELSE "revise")
             /\ \A r \in QueueNames \ {q} : queues'[r] = queues[r]

\* C1: evaluate_and_decide approves (APPROVED, then cover design) if both
\* flags are true or round_number >= max_revisions, and otherwise requests a
\* revision (REVISION_NEEDED and one revise message); there is no other outcome
C1_EvaluateAndDecide == [](C1_Decision) /\ [][C1_Outcome]_vars

\* C1 witness: a round was sent back for revision, a later round that was
\* not approved by both was accepted because the cap was reached, and its
\* design_cover message is out
C1_Witness ==
    /\ Len(evals) >= 2
    /\ evals[1].branch = "revision_needed"
    /\ LastEval.branch = "max_revisions_reached"
    /\ ~(LastEval.reviewer_approved /\ LastEval.editor_approved)
    /\ queues[QUEUE_COVER_DESIGNER] # <<>>

\* the messages that are queued for an agent or being handled by it
Pending(a) ==
    InQueue(ListenQueue(a)) \cup (IF msg[a] = NoMsg THEN {} ELSE {msg[a]})

\* C2 as claimed: a revise message carries the evaluated round plus one
C2_Original ==
    \A m \in Pending("writer") :
        m.action = "revise" =>
            m.payload.round_number = LastEval.round_number + 1

\* C2 amended: when evaluate_and_decide decides REVISE for round r, the revise
\* message it emits carries round_number r; the writer records r as
\* revision_count and echoes r in revision_ready, and the review round the
\* orchestrator starts next is r + 1
C2_ReviseCarriesRound ==
    /\ \A m \in Pending("writer") :
          m.action = "revise" =>
              /\ LastEval.branch = "revision_needed"
              /\ m.story_id = LastEval.story_id
              /\ m.payload.round_number = LastEval.round_number
    /\ \A m \in Pending(O) :
          m.action = "revision_ready" =>
              /\ m.payload.round_number = LastEval.round_number
              /\ store[m.story_id].revision_count = LastEval.round_number
    /\ \A sid \in StoryIds :
          \A i \in DOMAIN RoundsOf(sid) :
              i > 1 => /\ i - 1 \in DOMAIN EvalsOf(sid)
                       /\ EvalsOf(sid)[i - 1].branch = "revision_needed"
                       /\ RoundsOf(sid)[i].round_number =
                              EvalsOf(sid)[i - 1].round_number + 1

\* C2 witness: the scenario of the claim (reviewer approved, editor did not,
\* round 1, max_revisions 3) with the revise message on the writer's queue
C2_Witness ==
    /\ Len(evals) = 1
    /\ LastEval.reviewer_approved /\ ~LastEval.editor_approved
    /\ LastEval.round_number = 1 /\ LastEval.max_revisions = 3
    /\ \E m \in InQueue(QUEUE_WRITER) : m.action = "revise"

\* C3: for each story the rounds of the successive review rounds started by
\* the orchestrator are 1, 2, 3, ...: none skipped, none repeated
C3_RoundsCount ==
    \A sid \in StoryIds :
        \A i \in DOMAIN RoundsOf(sid) : RoundsOf(sid)[i].round_number = i

\* C3 witness: a third review round was started
C3_Witness == \E sid \in StoryIds : Len(RoundsOf(sid)) >= 3

\* the orchestrator is inside _evaluate_and_decide or about to call it
Evaluating ==
    pc[O] \in {"evaluate", "save_approved", "save_designing_cover",
               "enqueue_design_cover", "generate", "save_revision_needed",
               "enqueue_revise"}

\* C4: in parallel mode the evaluation of a round runs only with both the
\* reviewer's and the editor's completion of that round in the join entry,
\* the i-th evaluation of a story is that of its i-th review round (so no
\* round is evaluated twice), and once the pipeline is quiescent every round
\* that was started has been evaluated
C4_EvaluateOncePerRound ==
    review_mode = "parallel" =>
        /\ (pc[O] = "load_feedback" \/ Evaluating) =>
              LET fb == pending_feedback[msg[O].story_id]
              IN /\ DOMAIN fb = {"reviewer", "editor"}
                 /\ fb["reviewer"].round_number = fb["editor"].round_number
                 /\ Evaluating => args.round_number = fb["reviewer"].round_number
        /\ \A sid \in StoryIds :
              /\ Len(EvalsOf(sid)) <= Len(RoundsOf(sid))
              /\ \A i \in DOMAIN EvalsOf(sid) :
                    EvalsOf(sid)[i].round_number = RoundsOf(sid)[i].round_number
              /\ Quiescent => Len(EvalsOf(sid)) = Len(RoundsOf(sid))

\* C4 witness: parallel mode, two rounds started and evaluated, all quiet
C4_Witness ==
    /\ review_mode = "parallel"
    /\ Quiescent
    /\ Len(evals) = 2 /\ Len(review_rounds) = 2

\* what a worker answered for a round of a story
Verdicts(sid, agent, round_number) ==
    {p.item.approved : p \in {x \in produced :
                                /\ x.story_id = sid
                                /\ x.item.agent = agent
                                /\ x.item.round_number = round_number}}

\* C5: in parallel mode the flags evaluate_and_decide is called with are the
\* reviewer's and the editor's verdicts of that round whichever completion
\* was handled last, so the decision, the status and the follow-up message
\* are those the verdicts give in either order
C5_OrderIrrelevant ==
    review_mode = "parallel" =>
        /\ pc[O] = "evaluate" =>
              /\ Verdicts(msg[O].story_id, "reviewer", args.round_number)
                    = {args.reviewer_approved}
              /\ Verdicts(msg[O].story_id, "editor", args.round_number)
                    = {args.editor_approved}
        /\ \A i \in DOMAIN evals :
              LET e == evals[i]
              IN \E rv \in Verdicts(e.story_id, "reviewer", e.round_number) :
                 \E ev \in Verdicts(e.story_id, "editor", e.round_number) :
                    (e.branch = "revision_needed") =
                        (SpecDecision(rv, ev, e.round_number, e.max_revisions)
                            = "REVISE")

\* C5 witness: the editor's completion was handled first and the reviewer's
\* completes the join, the two verdicts being different
C5_Witness ==
    /\ review_mode = "parallel"
    /\ pc[O] = "evaluate"
    /\ msg[O].action = "review_complete"
    /\ args.reviewer_approved # args.editor_approved

\* the store holds a feedback entry of the agent for the round
HasFeedback(sid, agent, round_number) ==
    /\ store[sid] # NoStory
    /\ \E i \in DOMAIN store[sid].feedback :
          /\ store[sid].feedback[i].agent = agent
          /\ store[sid].feedback[i].round_number = round_number

\* C6: in sequential mode, whenever an edit message for round r of a story
\* is queued for the editor or being handled by it, the reviewer's feedback
\* for round r is stored, the reviewer is done with round r and no
\* review_complete of round r is still waiting for the orchestrator
C6_EditorAfterReviewer ==
    review_mode = "sequential" =>
        \A m \in Pending("editor") :
            LET r == m.payload.round_number
            IN /\ HasFeedback(m.story_id, "reviewer", r)
               /\ \A x \in Pending("reviewer") :
                     ~(x.story_id = m.story_id /\ x.payload.round_number = r)
               /\ \A x \in Pending(O) :
                     ~(x.story_id = m.story_id /\ x.action = "review_complete")

\* C6 witness: sequential mode, the editor is handling round 2
C6_Witness ==
    /\ review_mode = "sequential"
    /\ msg["editor"] # NoMsg
    /\ msg["editor"].payload.round_number = 2

\* the number of stored feedback entries of an agent for a round
FeedbackCount(sid, agent, round_number) ==
    Cardinality({i \in DOMAIN store[sid].feedback :
                    /\ store[sid].feedback[i].agent = agent
                    /\ store[sid].feedback[i].round_number = round_number})

\* C7 as claimed: whenever the orchestrator evaluates round r of a story, the
\* persisted Story holds exactly one reviewer entry and exactly one editor
\* entry for round r
C7_Claim ==
    pc[O] = "evaluate" =>
        /\ FeedbackCount(msg[O].story_id, "reviewer", args.round_number) = 1
        /\ FeedbackCount(msg[O].story_id, "editor", args.round_number) = 1

\* C8 as claimed: every save leaves the stored feedback list a prefix of the
\* new one
C8_Claim ==
    [][\A sid \in StoryIds :
          (store[sid] # NoStory /\ store'[sid] # NoStory) =>
              IsPrefix(store[sid].feedback, store'[sid].feedback)]_vars

\* the edges of the status chain
StatusEdges ==
    {<<"QUEUED", "PROMPT_CREATED">>, <<"PROMPT_CREATED", "DRAFT_WRITTEN">>,
     <<"DRAFT_WRITTEN", "IN_REVIEW">>, <<"IN_REVIEW", "REVISION_NEEDED">>,
     <<"REVISION_NEEDED", "REVISED">>, <<"REVISED", "IN_REVIEW">>,
     <<"IN_REVIEW", "APPROVED">>, <<"APPROVED", "DESIGNING_COVER">>,
     <<"DESIGNING_COVER", "PUBLISHED">>}

\* C9: every change of a story's persisted status follows an edge of the
\* chain (a story is first persisted as PROMPT_CREATED, the successor of
\* QUEUED; a save that keeps the status is no change)
C9_StatusEdges ==
    [][\A sid \in StoryIds :
          /\ (store[sid] = NoStory /\ store'[sid] # NoStory) =>
                <<"QUEUED", store'[sid].status>> \in StatusEdges
          /\ (store[sid] # NoStory /\ store'[sid] # NoStory
                /\ store'[sid].status # store[sid].status) =>
                <<store[sid].status, store'[sid].status>> \in StatusEdges]_vars

\* C9 witness: a story is PUBLISHED after two trips through the revision loop
C9_Witness ==
    \E sid \in StoryIds :
        /\ store[sid] # NoStory
        /\ store[sid].status = "PUBLISHED"
        /\ store[sid].revision_count = 2

\* C10: revision_count <= max_revisions for every stored story and for every
\* Story object a handler holds
C10_RevisionCountCapped ==
    /\ \A sid \in StoryIds :
          store[sid] # NoStory =>
              store[sid].revision_count <= store[sid].max_revisions
    /\ \A a \in Agents :
          story[a] # NoStory => story[a].revision_count <= story[a].max_revisions

\* C10 witness: the writer has stored the last revision the cap allows
C10_Witness ==
    \E sid \in StoryIds :
        /\ store[sid] # NoStory
        /\ store[sid].max_revisions = 3
        /\ store[sid].revision_count = 2
        /\ store[sid].status = "REVISED"

\* the rounds a story can be reviewed in
Rounds == 1..(MaxRevisionsLimit + 1)

\* C11: in every reachable state, for every story and every round, the
\* stored feedback list holds at most one reviewer entry and at most one
\* editor entry
C11_OneEntryPerRole ==
    \A sid \in StoryIds :
        store[sid] # NoStory =>
            /\ \A i \in DOMAIN store[sid].feedback :
                  store[sid].feedback[i].round_number \in Rounds
            /\ \A agent \in {"reviewer", "editor"} : \A r \in Rounds :
                  FeedbackCount(sid, agent, r) <= 1

\* C11 witness: the stored list holds the reviewer's and the editor's entry
\* of round 1 and of round 2
C11_Witness ==
    \E sid \in StoryIds :
        /\ store[sid] # NoStory
        /\ \A agent \in {"reviewer", "editor"} : \A r \in {1, 2} :
              FeedbackCount(sid, agent, r) = 1

\* C12 as claimed: the receive loop of no agent terminates because of an
\* error raised while a message is handled, a failure of the activity record
\* of the error path included
C12_Claim == \A a \in Agents : pc[a] # "exited"

\* C13: when the orchestrator handles draft_ready, revision_ready,
\* edit_complete (sequential), the second parallel completion or cover_ready
\* and the story cannot be loaded, the handler ends without persisting a
\* Story, without enqueuing a message and without putting the inbound
\* message back
C13_NotFoundDrops ==
    [][(OrchLoading /\ pc'[O] = "idle") =>
          /\ store' = store
          /\ queues' = queues
          /\ enqueued' = enqueued
          /\ \A q \in QueueNames : msg[O] \notin InQueue(q)]_vars

\* C13 witness: in parallel mode the completion that made both present was
\* given up because the story could not be loaded
C13_Witness ==
    /\ review_mode = "parallel"
    /\ pc[O] = "idle"
    /\ \E d \in dropped :
          /\ d.error = "story_not_found"
          /\ d.message.action \in {"review_complete", "edit_complete"}

\* the agent is in the except clause because generate raised
GenerationFailed(a) == pc[a] = "except" /\ result[a] = [raised |-> "generate"]

OtherReviewRole(a) == IF a = "reviewer" THEN "editor" ELSE "reviewer"

\* the stored document is the one the handler loaded (for the prompt
\* generator: there is none yet); in parallel mode the other review worker
\* of the round may have saved its entry in the meantime
StoredAsLoaded(a) ==
    LET sid == msg[a].story_id
        r == Get(msg[a].payload, "round_number", 1)
    IN IF a = "prompt_generator"
       THEN store[sid] = NoStory
       ELSE \/ store[sid] = story[a]
            \/ /\ a \in {"reviewer", "editor"}
               /\ IsParallel(review_mode)
               /\ \E approved \in BOOLEAN :
                     store[sid] = AppendFeedback(story[a],
                                      FeedbackItem(OtherReviewRole(a), r, approved))

\* the log line of the message the handler pushes when it succeeds
FollowUpLine(a) ==
    IF a = O
    THEN [queue |-> QUEUE_WRITER, action |-> "revise", story_id |-> msg[a].story_id]
    ELSE LogLine(QUEUE_ORCHESTRATOR, FollowUp(a, msg[a], [approved |-> FALSE]))

\* the follow-ups pushed for the story so far are those of the earlier rounds
NoFollowUp(a) ==
    CopiesIn(FollowUpLine(a), enqueued) =
        IF msg[a].action \in {"generate_prompt", "write_draft", "design_cover"}
        THEN 0
        ELSE Get(msg[a].payload, "round_number", 1) - 1

\* C14, the state: while a handler is in the generation call and after the
\* call has failed, the stored Story is the one the handler loaded, no
\* follow-up of the message has been pushed and the message is on no queue
C14_Untouched ==
    \A a \in Agents :
        (Calling(a) = "generate" \/ GenerationFailed(a)) =>
            /\ StoredAsLoaded(a)
            /\ NoFollowUp(a)
            /\ \A q \in QueueNames : msg[a] \notin InQueue(q)

\* C14, the steps: the failure of the call and the way back to the pop
\* change neither the store nor any queue
C14_Abandoned ==
    \A a \in Agents :
        (/\ pc'[a] # pc[a]
         /\ \/ GenerationFailed(a)
            \/ pc'[a] = "except" /\ result'[a] = [raised |-> "generate"]) =>
            /\ store' = store
            /\ queues' = queues
            /\ enqueued' = enqueued

\* C14: if the generation call fails while a handler (prompt generator,
\* writer, reviewer, editor, cover designer, the orchestrator's feedback
\* summary) processes a message, the persisted Story is as it was before the
\* message was popped, no follow-up is enqueued and the message is not put
\* back on any queue
C14_GenerationFailure == [](C14_Untouched) /\ [][C14_Abandoned]_vars

\* C14 witness: in parallel mode the feedback summary of the orchestrator
\* has failed for a round that was not approved, the story still IN_REVIEW
C14_Witness ==
    /\ review_mode = "parallel"
    /\ GenerationFailed(O)
    /\ LastEval.branch = "revision_needed"
    /\ store[msg[O].story_id].status = "IN_REVIEW"

\* a message of the story was given up by its consumer
Lost(sid) == \E d \in dropped : d.message.story_id = sid

\* nothing is queued and no agent is inside a handler
Stalled ==
    /\ \A q \in QueueNames :
          queues[q] = <<>> \/ \E a \in Agents : ListenQueue(a) = q /\ pc[a] = "exited"
    /\ \A a \in Agents : pc[a] \in {"idle", "exited"}

\* C15, one step: the status stored by a step is one of the vocabulary and
\* follows an edge of the chain from the status stored before; once a
\* message of the story is lost, no step changes the stored status
C15_Step ==
    \A sid \in StoryIds :
        /\ store'[sid] # NoStory => store'[sid].status \in StoryStatus
        /\ (store[sid] = NoStory /\ store'[sid] # NoStory) =>
              <<"QUEUED", store'[sid].status>> \in StatusEdges
        /\ (store[sid] # NoStory /\ store'[sid] # NoStory
              /\ store'[sid].status # store[sid].status) =>
              <<store[sid].status, store'[sid].status>> \in StatusEdges
        /\ Lost(sid) =>
              /\ (store'[sid] = NoStory) = (store[sid] = NoStory)
              /\ store[sid] # NoStory => store'[sid].status = store[sid].status

\* C15: if a message of a story is lost at any stage (its consumer fails
\* after the pop, or gives it up after an error), the story's persisted
\* status stays the one of the last successful save, a value of the
\* vocabulary, and no later handler moves it along or past a stage: the
\* story stalls
C15_LossStalls == [][C15_Step]_vars

\* C15 witness: the revise message was lost; the pipeline has come to rest
\* with the story in REVISION_NEEDED
C15_Witness ==
    /\ Stalled
    /\ \E d \in dropped :
          /\ d.message.action = "revise"
          /\ store[d.message.story_id].status = "REVISION_NEEDED"

\* the review or edit message of round r of the story was given up by its
\* worker, so its completion never reaches the orchestrator
FanInLost(sid, r) ==
    \E d \in dropped :
        /\ d.message.story_id = sid
        /\ d.message.action \in {"review", "edit"}
        /\ d.message.payload.round_number = r

\* the message_enqueued lines of an action for a story
Emitted(q, action, sid) ==
    CopiesIn([queue |-> q, action |-> action, story_id |-> sid], enqueued)

\* C16: in parallel mode, if one of the two completions of round r never
\* reaches the orchestrator, the orchestrator never is in
\* evaluate_and_decide for round r, no revise for round r and no
\* design_cover is emitted, and the stored status is IN_REVIEW in every
\* state from then on
C16_PartialFanIn ==
    review_mode = "parallel" =>
        \A sid \in StoryIds : \A r \in Rounds :
            FanInLost(sid, r) =>
                /\ ~(Evaluating /\ msg[O].story_id = sid)
                /\ pc[O] # "load_feedback"
                /\ \A i \in DOMAIN evals :
                      evals[i].story_id = sid => evals[i].round_number < r
                /\ Emitted(QUEUE_WRITER, "revise", sid) = r - 1
                /\ Emitted(QUEUE_COVER_DESIGNER, "design_cover", sid) = 0
                /\ store[sid].status = "IN_REVIEW"

\* C16 witness: parallel mode, round 2: the edit message was lost, the
\* reviewer's completion was handled, and the pipeline has come to rest
C16_Witness ==
    /\ review_mode = "parallel"
    /\ Stalled
    /\ \E sid \in StoryIds :
          /\ FanInLost(sid, 2)
          /\ ~(\E d \in dropped : d.message.action = "review")
          /\ sid \in DOMAIN pending_feedback
          /\ DOMAIN pending_feedback[sid] = {"reviewer"}

\* C17 as claimed: in parallel mode a review round creates the join entry of
\* its story, and once the orchestrator has finished handling the completion
\* that made both roles present, the join map holds no entry for the story
C17_Claim ==
    review_mode = "parallel" =>
        /\ pc[O] = "send_edit" => msg[O].story_id \in DOMAIN pending_feedback
        /\ pc[O] = "idle" =>
              \A sid \in DOMAIN pending_feedback : ~BothIn(pending_feedback[sid])

\* the story's persisted status is PUBLISHED
Published(sid) == store[sid] # NoStory /\ store[sid].status = "PUBLISHED"

\* the message_enqueued lines written for a story
EmittedFor(sid, log) ==
    LET lines == {l \in BagToSet(log) : l.story_id = sid}
    IN [l \in lines |-> CopiesIn(l, log)]

\* C18, the state: with the story PUBLISHED no message of the story is queued
\* or being handled
C18_NothingPending ==
    \A sid \in StoryIds :
        Published(sid) => \A a \in Agents : \A m \in Pending(a) : m.story_id # sid

\* C18, the steps: no step changes the document of a PUBLISHED story or
\* emits a message for it
C18_Step ==
    \A sid \in StoryIds :
        Published(sid) =>
            /\ store'[sid] = store[sid]
            /\ EmittedFor(sid, enqueued') = EmittedFor(sid, enqueued)
            /\ \A q \in QueueNames : \A i \in DOMAIN queues'[q] :
                  queues'[q][i].story_id # sid

\* C18: PUBLISHED is terminal: once the persisted status of a story is
\* PUBLISHED, no action of the orchestrator or of a worker changes it and no
\* further message for the story is emitted
C18_PublishedTerminal == [](C18_NothingPending) /\ [][C18_Step]_vars

\* C18 witness: a story that went through a revision is PUBLISHED and the
\* pipeline is at rest
C18_Witness ==
    /\ Quiescent
    /\ \E sid \in StoryIds : Published(sid) /\ store[sid].revision_count >= 1

\* C19: under fair scheduling of the orchestrator and the workers, without
\* message loss or handler failure, every story for which start_new_story
\* was enqueued is eventually PUBLISHED, in both review modes and whatever
\* the reviewer and the editor answer
C19_EventuallyPublished ==
    \A sid \in StoryIds : (sid \in triggered) ~> Published(sid)

\* C19 witness: a story is PUBLISHED after its last round was accepted at the
\* cap without the approval of both
C19_Witness ==
    \E sid \in StoryIds :
        /\ Published(sid)
        /\ Len(evals) >= 2
        /\ LastEval.branch = "max_revisions_reached"

\* C20, one step: a queue changes either by a push, which adds one message
\* behind all those queued, or by a pop, which removes the oldest message
\* and hands it to exactly one consumer, an agent listening on that queue
\* that held no message
C20_Step ==
    \A q \in QueueNames :
        queues'[q] # queues[q] =>
            \/ /\ Len(queues'[q]) = Len(queues[q]) + 1
               /\ SubSeq(queues'[q], 1, Len(queues[q])) = queues[q]
            \/ /\ queues[q] # <<>>
               /\ queues'[q] = Tail(queues[q])
               /\ \E a \in Agents :
                     /\ ListenQueue(a) = q
                     /\ msg[a] = NoMsg
                     /\ msg'[a] = Head(queues[q])
                     /\ \A b \in Agents \ {a} : msg'[b] = msg[b]

C21_UnknownActionDropped ==
    [][\A a \in Agents :
          (pc[a] = "handle" /\ msg[a].action \notin Dispatch(a)
             /\ pc'[a] # pc[a]) =>
              /\ pc'[a] = "idle"
              /\ store' = store
              /\ queues' = queues
              /\ enqueued' = enqueued
              /\ pending_feedback' = pending_feedback]_vars

\* C21 witness: in parallel mode the orchestrator has dropped a stray message
\* while the join entry of the story held one completion, which it still does
C21_Witness ==
    /\ review_mode = "parallel"
    /\ pc[O] = "idle"
    /\ \E d \in dropped :
          /\ d.error = "unknown_action"
          /\ d.message.target = O
          /\ d.message.story_id \in DOMAIN pending_feedback
          /\ DOMAIN pending_feedback[d.message.story_id] = {"reviewer"}

\* the revision rounds the writer has completed for a story: those whose
\* revision_ready is out, and the one saved whose revision_ready is next
WriterCompleted(sid) ==
    Emitted(QUEUE_ORCHESTRATOR, "revision_ready", sid)
        + (IF /\ pc["writer"] = "enqueue"
              /\ msg["writer"].action = "revise"
              /\ msg["writer"].story_id = sid
           THEN 1 ELSE 0)

\* C22, the state: the stored revision_count is the highest revision round
\* the writer has completed (the rounds are 1, 2, ... so it is their number)
C22_State ==
    \A sid \in StoryIds :
        store[sid] # NoStory =>
            /\ store[sid].revision_count = WriterCompleted(sid)
            /\ store[sid].revision_count = Len(store[sid].revisions)
            /\ \A i \in DOMAIN store[sid].revisions :
                  store[sid].revisions[i].round_number = i

\* C22, the steps: no save stores a smaller revision_count than was stored
C22_Step ==
    \A sid \in StoryIds :
        (store[sid] # NoStory /\ store'[sid] # NoStory) =>
            store'[sid].revision_count >= store[sid].revision_count

\* C22: a story's persisted revision_count never decreases across the saves
\* of any component, and it equals the highest revision round the writer has
\* completed
C22_RevisionCountMonotone == [](C22_State) /\ [][C22_Step]_vars

\* C22 witness: after the writer's second revision the orchestrator, the
\* reviewer and the editor have saved the story, revision_count still 2
C22_Witness ==
    \E sid \in StoryIds :
        /\ store[sid] # NoStory
        /\ store[sid].revision_count = 2
        /\ HasFeedback(sid, "reviewer", 3)
        /\ HasFeedback(sid, "editor", 3)

\* C23: the persisted revisions sequence is append-only: a save leaves the
\* stored entries as they are and in their order and adds at most one entry
\* at the end, and only the save of the writer's revise step adds one; a
\* story is created with no revision
C23_RevisionsAppendOnly ==
    [][\A sid \in StoryIds :
          /\ (store[sid] = NoStory /\ store'[sid] # NoStory) =>
                store'[sid].revisions = <<>>
          /\ (store[sid] # NoStory /\ store'[sid] # NoStory) =>
                /\ IsPrefix(store[sid].revisions, store'[sid].revisions)
                /\ Len(store'[sid].revisions) <= Len(store[sid].revisions) + 1
                /\ store'[sid].revisions # store[sid].revisions =>
                      /\ pc["writer"] = "save"
                      /\ msg["writer"].action = "revise"
                      /\ pc'["writer"] = "enqueue"]_vars

\* C23 witness: two revisions are stored, and the orchestrator has saved the
\* story after the second
C23_Witness ==
    \E sid \in StoryIds :
        /\ store[sid] # NoStory
        /\ Len(store[sid].revisions) = 2
        /\ store[sid].status = "IN_REVIEW"

\* C24: once the prompt stage has created a story, no save of the
\* orchestrator or of a worker changes its max_revisions or its prompt; they
\* are the configured cap and the generated brief
C24_CreationFieldsFixed ==
    [][\A sid \in StoryIds :
          /\ (store[sid] = NoStory /\ store'[sid] # NoStory) =>
                /\ store'[sid].max_revisions = max_revisions
                /\ store'[sid].prompt # NoPrompt
          /\ (store[sid] # NoStory /\ store'[sid] # NoStory) =>
                /\ store'[sid].max_revisions = store[sid].max_revisions
                /\ store'[sid].prompt = store[sid].prompt]_vars

\* C24 witness: a story created with max_revisions 2 is PUBLISHED after the
\* writer, the reviewers, the cover designer and the orchestrator saved it
C24_Witness ==
    \E sid \in StoryIds :
        /\ Published(sid)
        /\ store[sid].max_revisions = 2
        /\ store[sid].revision_count = 1
        /\ store[sid].cover_svg

\* the follow-up action the specification gives for each worker action
C25_FollowUpAction(action) ==
    CASE action = "generate_prompt" -> "prompt_ready"
      [] action = "write_draft" -> "draft_ready"
      [] action = "revise" -> "revision_ready"
      [] action = "review" -> "review_complete"
      [] action = "edit" -> "edit_complete"
      [] action = "design_cover" -> "cover_ready"

\* the last step of a worker handler that completes: its push and its return
C25_Completes(a) == pc[a] = "enqueue" /\ pc'[a] = "idle"

\* C25: a worker handler that completes saves the Story exactly as it mutated
\* it and touches no other document, pushes exactly one message, on the
\* orchestrator's queue and on no other, with the follow-up action of the
\* action it handled and the same story id, and pushes nothing before that
C25_WorkerCompletion ==
    [][\A a \in Workers :
          /\ (pc[a] = "save" /\ pc'[a] = "enqueue") =>
                /\ store'[msg[a].story_id] = story[a]
                /\ \A sid \in StoryIds \ {msg[a].story_id} : store'[sid] = store[sid]
          /\ C25_Completes(a) =>
                /\ store' = store
                /\ Len(queues'[QUEUE_ORCHESTRATOR]) = Len(queues[QUEUE_ORCHESTRATOR]) + 1
                /\ SubSeq(queues'[QUEUE_ORCHESTRATOR], 1, Len(queues[QUEUE_ORCHESTRATOR]))
                      = queues[QUEUE_ORCHESTRATOR]
                /\ LET m == queues'[QUEUE_ORCHESTRATOR][Len(queues'[QUEUE_ORCHESTRATOR])]
                   IN  /\ m.action = C25_FollowUpAction(msg[a].action)
                       /\ m.story_id = msg[a].story_id
                       /\ m.source = a
                /\ \A q \in QueueNames \ {QUEUE_ORCHESTRATOR} : queues'[q] = queues[q]
          /\ (pc[a] \notin {"idle", "enqueue"} /\ pc'[a] # pc[a]) =>
                /\ queues' = queues
                /\ enqueued' = enqueued]_vars

\* C25 witness: the writer completed a revise handler: the stored Story is the
\* revised one and revision_ready for it waits on the orchestrator's queue
C25_Witness ==
    \E sid \in StoryIds :
        /\ pc["writer"] = "idle"
        /\ store[sid] # NoStory
        /\ store[sid].status = "REVISED"
        /\ store[sid].revision_count = 1
        /\ \E m \in InQueue(QUEUE_ORCHESTRATOR) :
              m.action = "revision_ready" /\ m.story_id = sid /\ m.source = "writer"

\* queue q grows in this step by exactly one message, of this action, story
\* and round
C26_Pushed(q, action, sid, r) ==
    /\ queues'[q] = Append(queues[q], queues'[q][Len(queues'[q])])
    /\ LET m == queues'[q][Len(queues'[q])]
       IN  /\ m.action = action
           /\ m.story_id = sid
           /\ Get(m.payload, "round_number", 0) = r

\* the round the orchestrator started last for a story
C26_CurrentRound(sid) == RoundsOf(sid)[Len(RoundsOf(sid))].round_number

\* C26: a round start pushes exactly one review message of round r; in
\* parallel mode the same handler then pushes exactly one edit message of
\* round r; in sequential mode the handler ends without one and the edit message
\* of round r is pushed only by the handler of review_complete of round r;
\* nothing else pushes on the reviewer's or the editor's queue
C26_RoundStart ==
    [][/\ (pc[O] = "send_for_review" /\ pc'[O] # pc[O]) =>
            /\ Len(review_rounds') = Len(review_rounds) + 1
            /\ C26_Pushed(QUEUE_REVIEWER, "review", msg[O].story_id,
                          review_rounds'[Len(review_rounds')].round_number)
            /\ review_rounds'[Len(review_rounds')].story_id = msg[O].story_id
            /\ queues'[QUEUE_EDITOR] = queues[QUEUE_EDITOR]
            /\ pc'[O] = IF review_mode = "parallel" THEN "send_edit" ELSE "idle"
       /\ (pc[O] = "send_edit" /\ pc'[O] # pc[O]) =>
            /\ review_mode = "parallel"
            /\ C26_Pushed(QUEUE_EDITOR, "edit", msg[O].story_id,
                          C26_CurrentRound(msg[O].story_id))
            /\ queues'[QUEUE_REVIEWER] = queues[QUEUE_REVIEWER]
            /\ review_rounds' = review_rounds
            /\ pc'[O] = "idle"
       /\ Len(queues'[QUEUE_REVIEWER]) > Len(queues[QUEUE_REVIEWER]) =>
            pc[O] = "send_for_review"
       /\ Len(queues'[QUEUE_EDITOR]) > Len(queues[QUEUE_EDITOR]) =>
            \/ pc[O] = "send_edit"
            \/ /\ review_mode = "sequential"
               /\ pc[O] = "handle"
               /\ msg[O].action = "review_complete"
               /\ C26_Pushed(QUEUE_EDITOR, "edit", msg[O].story_id,
                             Get(msg[O].payload, "round_number", 0))
               /\ Get(msg[O].payload, "round_number", 0)
                     = C26_CurrentRound(msg[O].story_id)
               /\ pc'[O] = "idle"]_vars

\* C26 witness: in parallel mode the review and the edit message of round 2
\* wait on their queues together
C26_Witness ==
    /\ review_mode = "parallel"
    /\ \E m1 \in InQueue(QUEUE_REVIEWER), m2 \in InQueue(QUEUE_EDITOR) :
          /\ m1.action = "review" /\ m2.action = "edit"
          /\ m1.story_id = m2.story_id
          /\ m1.payload = [round_number |-> 2]
          /\ m2.payload = [round_number |-> 2]

\* C26 witness, sequential mode: the edit message of round 2 waits while the
\* reviewer's queue is empty and the reviewer's entry of round 2 is stored
C26_WitnessSequential ==
    /\ review_mode = "sequential"
    /\ queues[QUEUE_REVIEWER] = <<>>
    /\ \E m2 \in InQueue(QUEUE_EDITOR) :
          /\ m2.action = "edit"
          /\ m2.payload = [round_number |-> 2]
          /\ RoundFeedback(store[m2.story_id], "reviewer", 2) # NoFeedback

\* the approval flag of a role's stored entry of a round, FALSE without one
C27_StoredFlag(sid, agent, r) ==
    \E i \in DOMAIN store[sid].feedback :
        /\ store[sid].feedback[i].agent = agent
        /\ store[sid].feedback[i].round_number = r
        /\ store[sid].feedback[i].approved
        /\ \A j \in 1..(i - 1) :
              ~(/\ store[sid].feedback[j].agent = agent
                /\ store[sid].feedback[j].round_number = r)

\* C27, the state: in sequential mode the i-th evaluation of a story is that
\* of its i-th round and a quiescent pipeline has evaluated every round; the
\* flags of an evaluation about to run are those of the stored entries of the
\* round, which are the verdicts the reviewer and the editor produced; and for
\* a round without a stored entry of a role the read-back gives not approved
C27_State ==
    review_mode = "sequential" =>
        \A sid \in StoryIds :
            /\ Len(EvalsOf(sid)) <= Len(RoundsOf(sid))
            /\ \A i \in DOMAIN EvalsOf(sid) :
                  EvalsOf(sid)[i].round_number = RoundsOf(sid)[i].round_number
            /\ Quiescent => Len(EvalsOf(sid)) = Len(RoundsOf(sid))
            /\ (pc[O] = "evaluate" /\ msg[O].story_id = sid) =>
                  /\ args.reviewer_approved
                        = C27_StoredFlag(sid, "reviewer", args.round_number)
                  /\ args.editor_approved
                        = C27_StoredFlag(sid, "editor", args.round_number)
                  /\ Verdicts(sid, "reviewer", args.round_number)
                        = {args.reviewer_approved}
                  /\ Verdicts(sid, "editor", args.round_number)
                        = {args.editor_approved}
            /\ store[sid] # NoStory =>
                  \A r \in Rounds :
                      LET read == SequentialArgs(
                                     AgentMessage(sid, "edit_complete",
                                                  CompletionPayload(r, TRUE),
                                                  "editor", "orchestrator"),
                                     store[sid])
                      IN  /\ ~HasFeedback(sid, "reviewer", r) => ~read.reviewer_approved
                          /\ ~HasFeedback(sid, "editor", r) => ~read.editor_approved

\* C27, the step: in sequential mode an evaluation is recorded only in the
\* handler of edit_complete, for the round of that message, and the handler of
\* edit_complete goes on to an evaluation with the stored flags
C27_Step ==
    review_mode = "sequential" =>
        /\ evals' # evals =>
              /\ msg[O].action = "edit_complete"
              /\ Len(evals') = Len(evals) + 1
              /\ evals'[Len(evals')].round_number
                    = Get(msg[O].payload, "round_number", 0)
              /\ evals'[Len(evals')].story_id = msg[O].story_id
        /\ (pc[O] = "handle" /\ msg[O].action = "edit_complete" /\ pc'[O] # pc[O]) =>
              /\ pc'[O] = "evaluate"
              /\ args'.round_number = Get(msg[O].payload, "round_number", 0)
              /\ args'.reviewer_approved
                    = C27_StoredFlag(msg[O].story_id, "reviewer", args'.round_number)
              /\ args'.editor_approved
                    = C27_StoredFlag(msg[O].story_id, "editor", args'.round_number)

\* C27: in sequential mode evaluate_and_decide runs once per round, in the
\* handler of edit_complete of that round, with the approval flags of the
\* round's entries in the persisted Story; a role without a stored entry counts
\* as not approved
C27_SequentialEvaluation == [](C27_State) /\ [][C27_Step]_vars

\* C27 witness: in sequential mode round 2 is about to be evaluated with the
\* reviewer's stored flag true and the editor's stored flag false, the payload
\* of edit_complete carrying only the editor's
C27_Witness ==
    /\ review_mode = "sequential"
    /\ pc[O] = "evaluate"
    /\ args = [reviewer_approved |-> TRUE, editor_approved |-> FALSE,
               round_number |-> 2]
    /\ msg[O].action = "edit_complete"
    /\ msg[O].payload = CompletionPayload(2, FALSE)

\* queue q grows in this step by exactly one message, m
C28_OnlyPush(q, m) ==
    /\ queues'[q] = Append(queues[q], m)
    /\ \A p \in QueueNames \ {q} : queues'[p] = queues[p]

\* the keys _handle_start_new_story forwards: those of user_prompt and model
\* whose value is non-empty
C28_Forwarded(payload) ==
    {k \in {"user_prompt", "model"} : Get(payload, k, "") # ""}

\* C28: the handlers of start_new_story and prompt_ready are one step that
\* loads no Story, saves none and pushes exactly one message for the story id
\* of the message: generate_prompt on the prompt generator's queue with
\* user_prompt and model exactly when non-empty, and write_draft on the
\* writer's queue
C28_ForwardOnly ==
    [][(/\ pc[O] = "handle"
        /\ msg[O].action \in {"start_new_story", "prompt_ready"}
        /\ pc'[O] # pc[O]) =>
          /\ pc'[O] = "idle"
          /\ store' = store
          /\ story[O] = NoStory /\ story'[O] = NoStory
          /\ IF msg[O].action = "start_new_story"
             THEN \E m \in {queues'[QUEUE_PROMPT_GENERATOR]
                               [Len(queues'[QUEUE_PROMPT_GENERATOR])]} :
                     /\ C28_OnlyPush(QUEUE_PROMPT_GENERATOR, m)
                     /\ m.action = "generate_prompt"
                     /\ m.story_id = msg[O].story_id
                     /\ DOMAIN m.payload = C28_Forwarded(msg[O].payload)
                     /\ \A k \in DOMAIN m.payload : m.payload[k] = msg[O].payload[k]
             ELSE \E m \in {queues'[QUEUE_WRITER][Len(queues'[QUEUE_WRITER])]} :
                     /\ C28_OnlyPush(QUEUE_WRITER, m)
                     /\ m.action = "write_draft"
                     /\ m.story_id = msg[O].story_id]_vars

\* C28 witness: with no Story stored, start_new_story was handled and
\* generate_prompt waits with the user's idea and no model key
C28_Witness ==
    \E sid \in StoryIds :
        /\ store[sid] = NoStory
        /\ pc[O] = "idle"
        /\ queues[QUEUE_PROMPT_GENERATOR]
              = <<AgentMessage(sid, "generate_prompt", [user_prompt |-> "idea"],
                               O, "prompt_generator")>>

\* the join entry holding one completion of round r of the story was lost in
\* a restart of the orchestrator
JoinLost(sid, r) ==
    \E d \in dropped :
        /\ d.error = "join_lost"
        /\ d.message.story_id = sid
        /\ Get(d.message.payload, "round_number", 1) = r

\* C29: in parallel mode, once the orchestrator restarted with one completion
\* of round r recorded and the other not yet, the orchestrator never is in
\* evaluate_and_decide for the story again, round r is never evaluated, no
\* revise for round r and no design_cover is emitted, and the stored status is
\* IN_REVIEW in every state from then on
C29_RestartLosesJoin ==
    review_mode = "parallel" =>
        \A sid \in StoryIds : \A r \in Rounds :
            JoinLost(sid, r) =>
                /\ ~(Evaluating /\ msg[O].story_id = sid)
                /\ pc[O] # "load_feedback"
                /\ \A i \in DOMAIN evals :
                      evals[i].story_id = sid => evals[i].round_number < r
                /\ Emitted(QUEUE_WRITER, "revise", sid) = r - 1
                /\ Emitted(QUEUE_COVER_DESIGNER, "design_cover", sid) = 0
                /\ store[sid].status = "IN_REVIEW"

\* C29 witness: parallel mode, round 2: the reviewer's completion was recorded,
\* the orchestrator restarted, the editor's completion was handled by the new
\* process without being given up, and the pipeline has come to rest
C29_Witness ==
    /\ review_mode = "parallel"
    /\ Quiescent
    /\ \E sid \in StoryIds :
          /\ dropped = {[message |-> HalfMessage(sid, "reviewer",
                                                 CompletionPayload(2, TRUE)),
                         error |-> "join_lost"]}
          /\ sid \in DOMAIN pending_feedback
          /\ pending_feedback[sid] = [editor |-> CompletionPayload(2, TRUE)]

\* the join maps of the orchestrator instances
JoinMaps ==
    {pending_feedback} \cup
    (IF standby = NoInstance THEN {} ELSE {standby.pending_feedback})

\* one instance holds only the reviewer's completion of round r of the story
\* and the other only the editor's
SplitFanIn(sid, r) ==
    /\ standby # NoInstance
    /\ \E pf1 \in JoinMaps, pf2 \in JoinMaps :
          /\ sid \in DOMAIN pf1 /\ sid \in DOMAIN pf2
          /\ DOMAIN pf1[sid] = {"reviewer"} /\ DOMAIN pf2[sid] = {"editor"}
          /\ Get(pf1[sid]["reviewer"], "round_number", 1) = r
          /\ Get(pf2[sid]["editor"], "round_number", 1) = r

\* some round of the story was evaluated more than once
DoubleEvaluated(sid) ==
    \E i \in DOMAIN EvalsOf(sid), j \in DOMAIN EvalsOf(sid) :
        i # j /\ EvalsOf(sid)[i].round_number = EvalsOf(sid)[j].round_number

StoredStatus(sid) == IF store[sid] = NoStory THEN "QUEUED" ELSE store[sid].status

\* C31, the state: after the approval branch is taken nothing is pushed until
\* APPROVED and then DESIGNING_COVER are stored; a design_cover or cover_ready
\* message that is queued or handled finds DESIGNING_COVER stored; a PUBLISHED
\* story had its design_cover and its cover_ready message
C31_State ==
    \A sid \in StoryIds :
        /\ (pc[O] = "save_approved" /\ msg[O].story_id = sid) =>
              /\ StoredStatus(sid) = "IN_REVIEW"
              /\ Emitted(QUEUE_COVER_DESIGNER, "design_cover", sid) = 0
        /\ (pc[O] = "save_designing_cover" /\ msg[O].story_id = sid) =>
              /\ StoredStatus(sid) = "APPROVED"
              /\ Emitted(QUEUE_COVER_DESIGNER, "design_cover", sid) = 0
        /\ (pc[O] = "enqueue_design_cover" /\ msg[O].story_id = sid) =>
              /\ StoredStatus(sid) = "DESIGNING_COVER"
              /\ Emitted(QUEUE_COVER_DESIGNER, "design_cover", sid) = 0
        /\ \A m \in Pending("cover_designer") \cup Pending(O) :
              (m.story_id = sid /\ m.action \in {"design_cover", "cover_ready"}) =>
                  /\ StoredStatus(sid) = "DESIGNING_COVER"
                  /\ Emitted(QUEUE_COVER_DESIGNER, "design_cover", sid) = 1
        /\ StoredStatus(sid) = "PUBLISHED" =>
              /\ Emitted(QUEUE_COVER_DESIGNER, "design_cover", sid) = 1
              /\ Emitted(QUEUE_ORCHESTRATOR, "cover_ready", sid) = 1
              /\ store[sid].cover_svg

\* C31, the step: the stored status moves to APPROVED, DESIGNING_COVER and
\* PUBLISHED one after the other, and to PUBLISHED only in the orchestrator's
\* handler of cover_ready for that story
C31_Step ==
    \A sid \in StoryIds :
        StoredStatus(sid)' # StoredStatus(sid) =>
            /\ StoredStatus(sid)' = "APPROVED" =>
                  StoredStatus(sid) = "IN_REVIEW" /\ pc[O] = "save_approved"
            /\ StoredStatus(sid)' = "DESIGNING_COVER" =>
                  StoredStatus(sid) = "APPROVED" /\ pc[O] = "save_designing_cover"
            /\ StoredStatus(sid)' = "PUBLISHED" =>
                  /\ StoredStatus(sid) = "DESIGNING_COVER"
                  /\ pc[O] = "publish"
                  /\ msg[O].action = "cover_ready"
                  /\ msg[O].story_id = sid
            /\ StoredStatus(sid) \in {"APPROVED", "DESIGNING_COVER"} =>
                  StoredStatus(sid)' \in {"DESIGNING_COVER", "PUBLISHED"}

\* C31: the cover-and-publish tail is linear: APPROVED is stored, then
\* DESIGNING_COVER, then design_cover is pushed; PUBLISHED is stored only by
\* the handler of cover_ready, so never without a design_cover message before
C31_CoverTailLinear == [](C31_State) /\ [][C31_Step]_vars

\* C31 witness: the orchestrator is about to store PUBLISHED while handling
\* cover_ready, the cover stored and DESIGNING_COVER the stored status
C31_Witness ==
    \E sid \in StoryIds :
        /\ pc[O] = "publish"
        /\ msg[O].action = "cover_ready" /\ msg[O].story_id = sid
        /\ StoredStatus(sid) = "DESIGNING_COVER"
        /\ store[sid].cover_svg
        /\ Emitted(QUEUE_COVER_DESIGNER, "design_cover", sid) = 1

\* the verdict a role produced for a round of the story
VerdictOf(sid, agent, r) == CHOOSE v \in Verdicts(sid, agent, r) : TRUE

\* the reviewer's and the editor's verdicts of the rounds evaluated so far
VerdictSeq(sid) ==
    [r \in 1..Len(EvalsOf(sid)) |->
        <<VerdictOf(sid, "reviewer", r), VerdictOf(sid, "editor", r)>>]

\* the decisions the specification gives for a sequence of per-round verdicts
\* under cap m, whatever the review mode
C32_Decisions(m, vs) ==
    [r \in 1..Len(vs) |-> SpecDecision(vs[r][1], vs[r][2], r, m)]

\* the decisions taken in the run, in order
C32_Taken(sid) ==
    [i \in 1..Len(EvalsOf(sid)) |->
        IF EvalsOf(sid)[i].branch = "revision_needed" THEN "REVISE" ELSE "APPROVE"]

\* the number of REVISE decisions among the first n of a sequence
RECURSIVE C32_Revises(_, _)
C32_Revises(ds, n) ==
    IF n = 0 THEN 0
    ELSE C32_Revises(ds, n - 1) + (IF ds[n] = "REVISE" THEN 1 ELSE 0)

\* C32: in either review mode, with no message lost, the decisions taken for a
\* story are those the specification gives for max_revisions and the per-round
\* verdicts alone, one per round in order; and when the pipeline is at rest
\* the last decision is the only APPROVE, the stored revision_count is the
\* number of REVISE decisions and the stored status is PUBLISHED. The outcome
\* being a function of the cap and the verdicts, it is the same in both modes
C32_ModesAgree ==
    \A sid \in StoryIds :
        /\ \A r \in 1..Len(EvalsOf(sid)) :
              /\ EvalsOf(sid)[r].round_number = r
              /\ Cardinality(Verdicts(sid, "reviewer", r)) = 1
              /\ Cardinality(Verdicts(sid, "editor", r)) = 1
              /\ EvalsOf(sid)[r].reviewer_approved = VerdictOf(sid, "reviewer", r)
              /\ EvalsOf(sid)[r].editor_approved = VerdictOf(sid, "editor", r)
        /\ C32_Taken(sid) = C32_Decisions(max_revisions, VerdictSeq(sid))
        /\ \A r \in 1..(Len(EvalsOf(sid)) - 1) : C32_Taken(sid)[r] = "REVISE"
        /\ (Quiescent /\ sid \in triggered) =>
              /\ Len(EvalsOf(sid)) >= 1
              /\ C32_Taken(sid)[Len(EvalsOf(sid))] = "APPROVE"
              /\ store[sid].revision_count
                    = C32_Revises(C32_Decisions(max_revisions, VerdictSeq(sid)),
                                  Len(EvalsOf(sid)))
              /\ store[sid].status = "PUBLISHED"

\* the run ended with the verdicts (reviewer yes, editor no) in round 1 and
\* (no, yes) in round 2 under cap 3, and a third round
C32_Ended ==
    /\ Quiescent
    /\ max_revisions = 3
    /\ \E sid \in StoryIds :
          /\ Len(EvalsOf(sid)) = 3
          /\ VerdictSeq(sid) = <<<<TRUE, FALSE>>, <<FALSE, TRUE>>, <<TRUE, TRUE>>>>
          /\ store[sid].revision_count = 2
          /\ store[sid].status = "PUBLISHED"

\* C32 witness: that run in parallel mode
C32_Witness == review_mode = "parallel" /\ C32_Ended

\* C32 witness, the same verdicts in sequential mode
C32_WitnessSequential == review_mode = "sequential" /\ C32_Ended

\* the round_number values of the completions recorded in the story's join
\* entry
JoinRounds(sid) ==
    IF sid \in DOMAIN pending_feedback
    THEN {Get(pending_feedback[sid][k], "round_number", 1) :
             k \in DOMAIN pending_feedback[sid]}
    ELSE {}

\* C33: in parallel mode with one orchestrator, every completion recorded in
\* a story's join entry is of the round most recently sent for review, so the
\* entry never holds a reviewer result of one round and an editor result of
\* another; when the evaluation fires both are present and the round
\* evaluated is that round
C33_JoinSameRound ==
    review_mode = "parallel" =>
        \A sid \in StoryIds :
            /\ JoinRounds(sid) # {} =>
                  /\ Len(RoundsOf(sid)) > 0
                  /\ JoinRounds(sid) = {C26_CurrentRound(sid)}
            /\ ((pc[O] = "load_feedback" \/ Evaluating) /\ msg[O].story_id = sid) =>
                  /\ sid \in DOMAIN pending_feedback
                  /\ BothIn(pending_feedback[sid])
                  /\ Get(pending_feedback[sid]["reviewer"], "round_number", 1)
                        = Get(pending_feedback[sid]["editor"], "round_number", 1)
                  /\ Get(msg[O].payload, "round_number", 1) = C26_CurrentRound(sid)
                  /\ pc[O] # "load_feedback" =>
                        args.round_number = C26_CurrentRound(sid)

\* C33 witness: parallel mode, the evaluation of round 2 is about to run with
\* both completions of round 2 in the join entry, the editor's recorded first
C33_Witness ==
    /\ review_mode = "parallel"
    /\ pc[O] = "evaluate"
    /\ msg[O].action = "review_complete"
    /\ JoinRounds(msg[O].story_id) = {2}
    /\ BothIn(pending_feedback[msg[O].story_id])
    /\ Len(RoundsOf(msg[O].story_id)) = 2

\* the number of messages of a story that are on a queue or in the hands of
\* an agent inside its handler
InFlight(sid) ==
    Cardinality(UNION {{<<q, i>> : i \in {j \in DOMAIN queues[q] :
                                            queues[q][j].story_id = sid}} :
                       q \in QueueNames})
    + Cardinality({a \in Agents : msg[a] # NoMsg /\ msg[a].story_id = sid})

\* the fan-out of the story's current round has begun and its fan-in is not
\* complete: the join entry exists and lacks a role
C34_FannedOut(sid) ==
    /\ sid \in DOMAIN pending_feedback
    /\ ~BothIn(pending_feedback[sid])
    /\ Len(RoundsOf(sid)) > Len(EvalsOf(sid))

C35_LoopBounded ==
    \A sid \in StoryIds :
        LET m == max_revisions
        IN  /\ store[sid] # NoStory => store[sid].max_revisions = m
            /\ m >= 1 =>
                  /\ Len(RoundsOf(sid)) <= m
                  /\ \A i \in DOMAIN RoundsOf(sid) : RoundsOf(sid)[i].round_number <= m
                  /\ Emitted(QUEUE_WRITER, "revise", sid) <= m - 1
                  /\ store[sid] # NoStory => store[sid].revision_count <= m - 1
                  /\ \A a \in Agents :
                        (story[a] # NoStory /\ story[a].story_id = sid) =>
                            story[a].revision_count <= m - 1
            /\ m <= 1 =>
                  /\ Len(RoundsOf(sid)) <= 1
                  /\ \A i \in DOMAIN EvalsOf(sid) :
                        EvalsOf(sid)[i].branch # "revision_needed"
                  /\ Emitted(QUEUE_WRITER, "revise", sid) = 0
                  /\ store[sid] # NoStory => store[sid].revision_count = 0

\* C35 witness: under cap 2 and with a refusal in each round the second round
\* was evaluated and approved at the cap, after one revise message
C35_Witness ==
    /\ max_revisions = 2
    /\ \E sid \in StoryIds :
          /\ Len(EvalsOf(sid)) = 2
          /\ EvalsOf(sid)[2].branch = "max_revisions_reached"
          /\ ~EvalsOf(sid)[2].reviewer_approved
          /\ Emitted(QUEUE_WRITER, "revise", sid) = 1
          /\ store[sid].revision_count = 1

\* C35 witness, cap 0: the first evaluation approved against two refusals
C35_WitnessNoCap ==
    /\ max_revisions = 0
    /\ Len(evals) = 1
    /\ evals[1].branch = "max_revisions_reached"
    /\ ~evals[1].reviewer_approved /\ ~evals[1].editor_approved

\* C36: every stored Story has as many revisions entries as its
\* revision_count, and their round_number fields are 1, 2, ...,
\* revision_count in that order
C36_RevisionsNumbered ==
    \A sid \in StoryIds :
        store[sid] # NoStory =>
            /\ Len(store[sid].revisions) = store[sid].revision_count
            /\ \A i \in DOMAIN store[sid].revisions :
                  store[sid].revisions[i].round_number = i

\* C36 witness: a stored Story with two revisions, numbered 1 and 2, back in
\* review
C36_Witness ==
    \E sid \in StoryIds :
        /\ store[sid] # NoStory
        /\ store[sid].revisions = <<Revision(1), Revision(2)>>
        /\ store[sid].revision_count = 2
        /\ store[sid].status = "IN_REVIEW"

\* C37, the state: at most one design_cover and at most one cover_ready
\* message is pushed for a story, and none of them is left once it is PUBLISHED
C37_State ==
    \A sid \in StoryIds :
        /\ Emitted(QUEUE_COVER_DESIGNER, "design_cover", sid) <= 1
        /\ Emitted(QUEUE_ORCHESTRATOR, "cover_ready", sid) <= 1
        /\ StoredStatus(sid) = "PUBLISHED" =>
              \A a \in {O, "cover_designer"} : \A m \in Pending(a) :
                  m.story_id = sid => m.action \notin {"design_cover", "cover_ready"}

\* the design_cover lines of a story in a log of message_enqueued lines
C37_DesignCovers(log, sid) ==
    CopiesIn([queue |-> QUEUE_COVER_DESIGNER, action |-> "design_cover",
              story_id |-> sid], log)

\* C37, the step: _publish_story saves a story that is not PUBLISHED yet, and
\* a design_cover message is pushed for a story that has none
C37_Step ==
    /\ \A sid \in StoryIds :
          store'[sid] # store[sid] /\ store'[sid].status = "PUBLISHED" =>
              /\ pc[O] = "publish"
              /\ msg[O].story_id = sid
              /\ StoredStatus(sid) # "PUBLISHED"
    /\ \A sid \in StoryIds :
          C37_DesignCovers(enqueued', sid) # C37_DesignCovers(enqueued, sid) =>
              /\ C37_DesignCovers(enqueued, sid) = 0
              /\ pc[O] = "enqueue_design_cover"

\* C37: with one orchestrator and each message delivered at most once, also
\* when calls fail, the orchestrator pushes at most one design_cover message
\* for a story and stores PUBLISHED for it at most once
C37_CoverAndPublishOnce == [](C37_State) /\ [][C37_Step]_vars

\* C37 witness: the story is PUBLISHED after one revision, with its one
\* design_cover and its one cover_ready message pushed and consumed
C37_Witness ==
    \E sid \in StoryIds :
        /\ StoredStatus(sid) = "PUBLISHED"
        /\ store[sid].revision_count = 1
        /\ Emitted(QUEUE_COVER_DESIGNER, "design_cover", sid) = 1
        /\ Emitted(QUEUE_ORCHESTRATOR, "cover_ready", sid) = 1
        /\ Quiescent

\* the Document Store holds what the sender of a message saved before it
\* pushed the message
C38_HoldsWrite(m) ==
    LET sid == m.story_id
        r == Get(m.payload, "round_number", 1)
    IN  CASE m.action = "prompt_ready" -> StoredStatus(sid) = "PROMPT_CREATED"
          [] m.action = "write_draft" -> StoredStatus(sid) = "PROMPT_CREATED"
          [] m.action = "draft_ready" -> StoredStatus(sid) = "DRAFT_WRITTEN"
          [] m.action \in {"review", "edit"} -> StoredStatus(sid) = "IN_REVIEW"
          [] m.action = "review_complete" -> HasFeedback(sid, "reviewer", r)
          [] m.action = "edit_complete" -> HasFeedback(sid, "editor", r)
          [] m.action = "revise" ->
                StoredStatus(sid) = "REVISION_NEEDED"
          [] m.action = "revision_ready" ->
                StoredStatus(sid) = "REVISED" /\ store[sid].revision_count = r
          [] m.action = "design_cover" -> StoredStatus(sid) = "DESIGNING_COVER"
          [] m.action = "cover_ready" ->
                StoredStatus(sid) = "DESIGNING_COVER" /\ store[sid].cover_svg
          [] OTHER -> TRUE

\* the messages that are visible on a queue
Queued == UNION {InQueue(q) : q \in QueueNames}

\* C38 as claimed: whenever a message is on a queue, or has just been popped,
\* the Document Store holds the write its sender saved before pushing it
C38_Claim ==
    /\ \A m \in Queued : C38_HoldsWrite(m)
    /\ \A a \in Agents : (pc[a] = "handle" /\ msg[a] # NoMsg) => C38_HoldsWrite(msg[a])

\* what holds of C38: the same for every message but the completions of a
\* parallel round, whose sender's entry the other role's save may have
\* replaced; of those, the verdict they carry was produced by their sender for
\* their round
C38_HoldsButParallelFeedback ==
    LET holds(m) ==
           IF m.action \in {"review_complete", "edit_complete"}
                /\ review_mode = "parallel"
           THEN Verdicts(m.story_id, m.source, Get(m.payload, "round_number", 1))
                   = {Get(m.payload, "approved", FALSE)}
           ELSE C38_HoldsWrite(m)
    IN  /\ \A m \in Queued : holds(m)
        /\ \A a \in Agents : (pc[a] = "handle" /\ msg[a] # NoMsg) => holds(msg[a])
====
